---------------------------- MODULE Spec2Model ----------------------------
(***************************************************************************)
(* Model of the ferrunix dependency-injection container                    *)
(* (ferrunix-core): the type-indexed Registry, the dependency tuples of    *)
(* with_deps, the singleton getters with their once-cell, and the          *)
(* DependencyValidator with its visitor closures and memoised verdict.     *)
(*                                                                         *)
(* A resolve is modelled the way the code runs it: Registry::transient /   *)
(* Registry::singleton look the provider up, the provider validates and    *)
(* materialises its dependency tuple left to right through the registry,   *)
(* then runs the user constructor.  A panic (expect / panic!) unwinds the  *)
(* whole call: every state change made before it stays.                    *)
(***************************************************************************)
EXTENDS Integers, Sequences, FiniteSets, TLC

(***************************************************************************)
(* Bounds of the model.                                                    *)
(***************************************************************************)
\* A resolve is started only while fewer user constructors than this ran
MaxCtorCalls == 3

\* and fewer resolves than this returned Ok.
MaxOkCalls == 3

\* The registration functions are invoked fewer times than this.
MaxResets == 3

(***************************************************************************)
(* The universe: three registerable types and two registries, a root "p"   *)
(* (Registry::empty) and its child "c" (p.child()).                        *)
(***************************************************************************)
Types == {"u8", "u16", "u32"}

Regs == {"p", "c"}

NoReg == "none"

\* A registry created by Registry::empty: it has no parent.
no_parent(r) == NoReg

\* Registry.parent: the child holds a weak reference to the root.
parent(r) == IF r = "c" THEN "p" ELSE NoReg

\* A child that holds a strong reference to its parent: the upgrade
\* always succeeds.
upgrade_strong(st, r) == parent(r)

\* self.parent.as_ref().and_then(|weakref| weakref.upgrade()): the parent
\* of r while a strong reference to it is left, None otherwise.
upgrade(st, r) ==
    IF parent(r) # NoReg /\ st.strong[parent(r)] > 0 THEN parent(r)
    ELSE NoReg

Lifetimes == {"Transient", "Singleton"}

\* The threads that call into the root registry concurrently.
Threads == {"t1", "t2"}

NoThread == "none"

\* A dependency handle of a with_deps tuple: Transient<ty> or Singleton<ty>.
Handle(d, t) == [dep |-> d, ty |-> t]

\* An empty slot of the objects table.
NoObject == [kind |-> "None", shape |-> "None", deps |-> << >>,
             ctor |-> FALSE, cell |-> 0]

\* An empty slot of the validator's visitor table.
NoVisitor == [present |-> FALSE, type_ids |-> << >>]

VARIABLES
    objects,    \* Registry.objects: registry -> type -> Object
    visitor,    \* DependencyValidator.visitor: registry -> type -> Visitor
    context,    \* DependencyValidator.context: registry -> VisitorContext
    ctorCalls,  \* registry -> type -> invocations of the user constructor
    ctorErrs,   \* registry -> type -> invocations that returned Err
    okCalls,    \* registry -> type -> resolves of the provider returning Ok
    insts,      \* registry -> type -> instances handed out by those resolves
    last,       \* the last completed operation and its result
    threads,    \* thread -> the call it runs, its stack of frames, its result
    objects_lock, \* the RwLock around the root's objects: read guards held
                \* per thread, and the thread that has set the writer bit
    validator_lock, \* the RwLocks around the visitor map and the context
                \* of the root's DependencyValidator
    default_registry, \* the static DEFAULT_REGISTRY: its once-cell, and
                \* the invocations of the registration functions
    strong      \* registry -> the strong references (Ref) the caller holds
                \* to it; a child holds a weak one to its parent

vars == <<objects, visitor, context, ctorCalls, ctorErrs, okCalls, insts,
          last, threads, objects_lock, validator_lock, default_registry,
          strong>>

\* What a call made by the program's only thread leaves alone.
conc == <<threads, objects_lock, validator_lock, default_registry, strong>>


(***************************************************************************)
(* Small helpers.                                                          *)
(***************************************************************************)
\* A map with no entry (an empty HashMap).
EmptyMap == [x \in {} |-> 0]

\* The sequences that list every element of the set S once.
Perms(S) == {o \in [1..Cardinality(S) -> S] :
                \A i, j \in 1..Cardinality(S) : o[i] = o[j] => i = j}

\* A thread that has not been given its call yet.
IdleThread ==
    [status |-> "idle", op |-> [kind |-> "", ty |-> ""], stack |-> << >>,
     res |-> [tag |-> "None", what |-> "", of |-> "", prov |-> NoReg,
              inst |-> 0]]

\* The result of an operation: Ok with the instance handed out (the prov
\* registry's provider of type `of` built it in its inst-th constructor
\* call), an Err value, or a panic that unwound the call.
Ok(r, T, k) == [tag |-> "Ok", what |-> "", of |-> T, prov |-> r, inst |-> k]

Err(what, T) == [tag |-> "Err", what |-> what, of |-> T, prov |-> NoReg,
                 inst |-> 0]

Panic(what, T) == [tag |-> "Panic", what |-> what, of |-> T, prov |-> NoReg,
                   inst |-> 0]

NoResult == [tag |-> "None", what |-> "", of |-> "", prov |-> NoReg,
             inst |-> 0]

(***************************************************************************)
(* DependencyValidator (cycle_detection.rs).                               *)
(*                                                                         *)
(* The graph is petgraph's: nodes in the order of add_node (the index of a *)
(* node is its position, counted from 1 here), edges in the order of       *)
(* add_edge.  visited and missing are maps keyed by the type.              *)
(***************************************************************************)
NoCache == [some |-> FALSE, ok |-> FALSE, node |-> 0]

\* VisitorContext::new, and the context after VisitorContext::reset.
VisitorContext_new ==
    [graph |-> [nodes |-> << >>, edges |-> << >>],
     missing |-> EmptyMap,
     visited |-> EmptyMap,
     validation_cache |-> NoCache]

\* An edge added from the dependency to the type that declares it.
add_edge_reversed(ctx, a, b) ==
    [ctx EXCEPT !.graph.edges = Append(@, <<b, a>>)]

add_edge(ctx, a, b) ==
    [ctx EXCEPT !.graph.edges = Append(@, <<a, b>>)]

\* A visitor that does not record an unregistered dependency.
no_missing(ctx, T, type_id) == ctx

\* A visitor that records only the first unregistered dependency of T.
add_missing_once(ctx, T, type_id) ==
    IF T \in DOMAIN ctx.missing THEN ctx
    ELSE [ctx EXCEPT !.missing = @ @@ (T :> <<type_id>>)]

\* The record pushed for an unregistered dependency `type_id` of T.
add_missing(ctx, T, type_id) ==
    [ctx EXCEPT !.missing =
        IF T \in DOMAIN @ THEN [@ EXCEPT ![T] = Append(@, type_id)]
                          ELSE @ @@ (T :> <<type_id>>)]

RECURSIVE visit(_, _, _), visit_deps(_, _, _, _, _)

\* The loop of a visitor over the type ids of T's dependency tuple, from
\* the i-th on.
visit_deps(visitors, ctx, T, current, i) ==
    LET type_ids == visitors[T].type_ids IN
    IF i > Len(type_ids) THEN ctx
    ELSE LET type_id == type_ids[i] IN
         IF type_id \in DOMAIN ctx.visited
         THEN visit_deps(visitors,
                         add_edge(ctx, current, ctx.visited[type_id]),
                         T, current, i + 1)
         ELSE IF visitors[type_id].present
         THEN LET sub == visit(visitors, ctx, type_id) IN
              visit_deps(visitors,
                         add_edge(sub.context, current, sub.index),
                         T, current, i + 1)
         ELSE visit_deps(visitors, add_missing(ctx, T, type_id),
                         T, current, i + 1)

\* A visitor that, called for a type it has visited, adds the node again
\* instead of returning the index it stored.
visit_again(visitors, ctx, T) ==
    LET nodes1 == Append(ctx.graph.nodes, T)
        current == Len(nodes1)
        ctx1 == [ctx EXCEPT !.graph.nodes = nodes1,
                            !.visited = (T :> current) @@ @]
    IN IF T \in DOMAIN ctx.visited
       THEN [context |-> ctx1, index |-> current]
       ELSE [context |-> visit_deps(visitors, ctx1, T, current, 1),
             index |-> current]

\* The visitor closure stored for T (for a type without dependencies the
\* tuple is empty and the loop does nothing).
visit(visitors, ctx, T) ==
    IF T \in DOMAIN ctx.visited
    THEN [context |-> ctx, index |-> ctx.visited[T]]
    ELSE LET nodes1 == Append(ctx.graph.nodes, T)
             current == Len(nodes1)
             ctx1 == [ctx EXCEPT !.graph.nodes = nodes1,
                                 !.visited = @ @@ (T :> current)]
         IN [context |-> visit_deps(visitors, ctx1, T, current, 1),
             index |-> current]

RECURSIVE Peel(_, _)
\* Removes, again and again, the nodes of S without an edge into S.
Peel(S, edges) ==
    LET leaves == {n \in S : \A i \in 1..Len(edges) :
                       edges[i][1] = n => edges[i][2] \notin S}
    IN IF leaves = {} THEN S ELSE Peel(S \ leaves, edges)

\* Graph::neighbors_directed: the other ends of the edges that leave n
\* ("Outgoing") or enter it ("Incoming"), the edge added last first.
neighbors_directed(graph, n, dir) ==
    LET es == SelectSeq(graph.edges,
                        LAMBDA e : IF dir = "Outgoing" THEN e[1] = n
                                                       ELSE e[2] = n)
    IN [k \in 1..Len(es) |->
           IF dir = "Outgoing" THEN es[Len(es) + 1 - k][2]
                               ELSE es[Len(es) + 1 - k][1]]

\* toposort, first loop, the first time nx is on top of the stack: a self
\* loop ends the sort with Cycle(nx), otherwise the successors not yet
\* discovered are pushed and nx stays.
discover(st, nx, succs) ==
    IF \E k \in 1..Len(succs) : succs[k] = nx
    THEN [st EXCEPT !.discovered = @ \cup {nx}, !.cycle = nx]
    ELSE [st EXCEPT !.discovered = @ \cup {nx},
                    !.stack = @ \o SelectSeq(succs,
                                  LAMBDA succ : succ \notin st.discovered)]

RECURSIVE finish(_, _)
\* toposort, first loop, `while let Some(&nx) = dfs.stack.last()`: the
\* second time a node is on top it is popped and, once, pushed on
\* finish_stack.
finish(graph, st) ==
    IF st.stack = << >> \/ st.cycle # 0 THEN st
    ELSE LET nx == st.stack[Len(st.stack)] IN
         IF nx \notin st.discovered
         THEN finish(graph,
                     discover(st, nx,
                              neighbors_directed(graph, nx, "Outgoing")))
         ELSE finish(graph,
                     [st EXCEPT !.stack = SubSeq(@, 1, Len(@) - 1),
                                !.finished = @ \cup {nx},
                                !.finish_stack =
                                    IF nx \in st.finished THEN @
                                    ELSE Append(@, nx)])

RECURSIVE finish_all(_, _, _)
\* toposort, first loop, `for i in g.node_identifiers().rev()`: from the
\* node added last down to the first.
finish_all(graph, st, i) ==
    IF i = 0 \/ st.cycle # 0 THEN st
    ELSE IF i \in st.discovered THEN finish_all(graph, st, i - 1)
    ELSE finish_all(graph, finish(graph, [st EXCEPT !.stack = <<i>>]),
                    i - 1)

RECURSIVE Dfs_next(_, _)
\* Dfs::next on Reversed(graph): pops until a node not yet discovered,
\* pushes its undiscovered predecessors and yields it (node 0: None).
Dfs_next(graph, dfs) ==
    IF dfs.stack = << >> THEN [dfs EXCEPT !.node = 0]
    ELSE LET node == dfs.stack[Len(dfs.stack)] IN
         IF node \in dfs.discovered
         THEN Dfs_next(graph,
                       [dfs EXCEPT !.stack = SubSeq(@, 1, Len(@) - 1)])
         ELSE [discovered |-> dfs.discovered \cup {node},
               stack |-> SubSeq(dfs.stack, 1, Len(dfs.stack) - 1)
                   \o SelectSeq(neighbors_directed(graph, node, "Incoming"),
                                LAMBDA succ :
                                    succ \notin dfs.discovered \cup {node}),
               node |-> node]

RECURSIVE find_cycle(_, _, _, _), first_next(_, _, _, _),
          second_next(_, _, _, _)
\* toposort, second loop, `for &i in &finish_stack`: a search from i
\* against the edges; the second node j that one search yields is the
\* node of Err(Cycle(j)).  The result is 0 if no search yields two.
find_cycle(graph, order, k, discovered) ==
    IF k > Len(order) THEN 0
    ELSE first_next(graph, order, k,
                    Dfs_next(graph, [discovered |-> discovered,
                                     stack |-> <<order[k]>>, node |-> 0]))

first_next(graph, order, k, dfs) ==
    IF dfs.node = 0 THEN find_cycle(graph, order, k + 1, dfs.discovered)
    ELSE second_next(graph, order, k, Dfs_next(graph, dfs))

second_next(graph, order, k, dfs) ==
    IF dfs.node # 0 THEN dfs.node
    ELSE find_cycle(graph, order, k + 1, dfs.discovered)

\* toposort after its first loop: finish_stack.reverse() and the second
\* loop.
sort_finished(graph, st) ==
    IF st.cycle # 0 THEN st.cycle
    ELSE find_cycle(graph,
                    [k \in 1..Len(st.finish_stack) |->
                        st.finish_stack[Len(st.finish_stack) + 1 - k]],
                    1, {})

\* A sort that, on a cycle, names the node that was added first.
toposort_first_added(graph) ==
    IF sort_finished(graph,
                     finish_all(graph,
                                [discovered |-> {}, finished |-> {},
                                 stack |-> << >>, finish_stack |-> << >>,
                                 cycle |-> 0],
                                Len(graph.nodes))) = 0
    THEN 0 ELSE 1

\* petgraph::algo::toposort: 0 for Ok(order), otherwise the index of the
\* node of Err(Cycle(node)).
toposort_cycle(graph) ==
    sort_finished(graph,
                  finish_all(graph,
                             [discovered |-> {}, finished |-> {},
                              stack |-> << >>, finish_stack |-> << >>,
                              cycle |-> 0],
                             Len(graph.nodes)))

\* The Result of toposort as validation_cache keeps it.
Cycle_node_id(node) == [some |-> TRUE, ok |-> node = 0, node |-> node]

\* petgraph::algo::toposort as calculate_validation calls it.
toposort(graph) == Cycle_node_id(toposort_cycle(graph))

RECURSIVE run_visitors(_, _, _, _)
\* The loop of calculate_validation over the visitors; `order` lists the
\* keys of the HashMap in the order its iterator yields them.
run_visitors(visitors, ctx, order, i) ==
    IF i > Len(order) THEN ctx
    ELSE run_visitors(visitors, visit(visitors, ctx, order[i]).context,
                      order, i + 1)

\* A walk over the visitors that does not store the result of toposort.
calculate_validation_uncached(visitors, ctx, order) ==
    run_visitors(visitors, ctx, order, 1)

calculate_validation(visitors, ctx, order) ==
    LET walked == run_visitors(visitors, ctx, order, 1) IN
    [walked EXCEPT !.validation_cache = toposort(walked.graph)]

\* Err(Missing) / Err(Cycle), Ok(true) "Cached" or Ok(false) "Stale".
validate_context(ctx) ==
    IF DOMAIN ctx.missing # {} THEN "Missing"
    ELSE IF ctx.validation_cache.some
    THEN (IF ctx.validation_cache.ok THEN "Cached" ELSE "Cycle")
    ELSE "Stale"

\* DependencyValidator::validate_all on one validator: the context it
\* leaves and its verdict, "Ok", "Missing" or "Cycle".
validate_all(visitors, ctx, order) ==
    LET first == validate_context(ctx) IN
    IF first \in {"Missing", "Cycle"} THEN [context |-> ctx, verdict |-> first]
    ELSE IF first = "Cached" THEN [context |-> ctx, verdict |-> "Ok"]
    ELSE LET write_context == calculate_validation(visitors, ctx, order)
             final == validate_context(write_context)
         IN [context |-> write_context,
             verdict |-> IF final \in {"Missing", "Cycle"} THEN final
                         ELSE "Ok"]

\* DependencyValidator::validate::<T>.
validate(visitors, ctx, T, order) == validate_all(visitors, ctx, order)

\* A registration that stores the visitor and keeps the context.
add_visitor_no_reset(vis, ctxs, r, T, type_ids) ==
    [visitor |-> [vis EXCEPT ![r][T] = [present |-> TRUE,
                                        type_ids |-> type_ids]],
     context |-> ctxs]

\* The Vec that validate_all_full fills from context.missing: one
\* MissingDependencies per key, in the order the HashMap's iterator yields
\* the keys (`iter` lists the types in that order).
missing_vec(missing, iter) ==
    LET keys == SelectSeq(iter, LAMBDA T : T \in DOMAIN missing) IN
    [i \in 1..Len(keys) |-> [ty |-> keys[i], deps |-> missing[keys[i]]]]

\* A full validation that looks at the result of toposort before it looks
\* at the missing dependencies.
validate_all_full_cycle_first(visitors, order, iter) ==
    LET ctx == calculate_validation(visitors, VisitorContext_new, order)
    IN IF ~ctx.validation_cache.ok THEN Err("Cycle", "")
       ELSE IF DOMAIN ctx.missing # {}
       THEN [tag |-> "Err", what |-> "Missing", of |-> "", prov |-> NoReg,
             inst |-> 0, missing |-> missing_vec(ctx.missing, iter)]
       ELSE [NoResult EXCEPT !.tag = "Ok"]

\* DependencyValidator::validate_all_full: a walk over the visitors with a
\* context of its own, and Ok, Err(Missing(vec)) or Err(Cycle(name)) from
\* what the walk left; name is the weight of the node that toposort named.
validate_all_full(visitors, order, iter) ==
    LET ctx == calculate_validation(visitors, VisitorContext_new, order)
    IN IF DOMAIN ctx.missing # {}
       THEN [tag |-> "Err", what |-> "Missing", of |-> "", prov |-> NoReg,
             inst |-> 0, missing |-> missing_vec(ctx.missing, iter)]
       ELSE IF ctx.validation_cache.ok
       THEN [NoResult EXCEPT !.tag = "Ok"]
       ELSE Err("Cycle", ctx.graph.nodes[ctx.validation_cache.node])

\* petgraph::dot::Dot with EdgeNoLabel, formatted: one line per node with
\* its index, counted from 0, and its label (the type name), then one line
\* `a -> b` per edge with the indices of its ends.
Dot(graph) ==
    [nodes |-> [i \in 1..Len(graph.nodes) |->
                   [index |-> i - 1, label |-> graph.nodes[i]]],
     edges |-> [i \in 1..Len(graph.edges) |->
                   <<graph.edges[i][1] - 1, graph.edges[i][2] - 1>>]]

\* What dotgraph returns after validate_all returned v: `?` on the
\* verdict, then the graph of the context, formatted.
dot_validated(v) ==
    [context |-> v.context,
     res |-> IF v.verdict # "Ok" THEN Err(v.verdict, "")
             ELSE [tag |-> "Ok", what |-> "", of |-> "", prov |-> NoReg,
                   inst |-> 0, dot |-> Dot(v.context.graph)]]

\* DependencyValidator::dotgraph.
dotgraph(visitors, ctx, order) ==
    dot_validated(validate_all(visitors, ctx, order))

\* A registration that runs the new visitor at once, in the context as it
\* is, instead of leaving the walk to the next validation.
add_visitor_eager(vis, ctxs, r, T, type_ids) ==
    [visitor |-> [vis EXCEPT ![r][T] = [present |-> TRUE,
                                        type_ids |-> type_ids]],
     context |-> [ctxs EXCEPT ![r] =
                     calculate_validation(
                         [vis EXCEPT ![r][T] = [present |-> TRUE,
                                                type_ids |-> type_ids]][r],
                         ctxs[r], <<T>>)]]

\* add_transient_no_deps / add_transient_deps (and the singleton twins,
\* which call them): store the visitor, reset the context.
add_visitor(vis, ctxs, r, T, type_ids) ==
    [visitor |-> [vis EXCEPT ![r][T] = [present |-> TRUE,
                                        type_ids |-> type_ids]],
     context |-> [ctxs EXCEPT ![r] = VisitorContext_new]]

(***************************************************************************)
(* Resolution (registry.rs, object_builder_sync.rs, dependency_builder.rs, *)
(* dependencies.rs).                                                       *)
(*                                                                         *)
(* The operators thread the mutable state `st` of the registries through   *)
(* the call and return [st, res]; `env` is what a resolve only reads: the  *)
(* visitors, the HashMap orders, and the providers whose user constructor  *)
(* returns Err when this call runs it.                                     *)
(***************************************************************************)
State == [objects |-> objects, context |-> context, ctorCalls |-> ctorCalls,
          ctorErrs |-> ctorErrs, okCalls |-> okCalls, insts |-> insts,
          strong |-> strong]

Env(order, failing) ==
    [visitor |-> visitor, order |-> order, failing |-> failing]

\* The user constructor of the provider of T in r runs: it returns Err
\* when <<r, T>> is failing, a new instance otherwise.
call_ctor(st, env, r, T) ==
    LET k == st.ctorCalls[r][T] + 1
        st1 == [st EXCEPT !.ctorCalls[r][T] = k]
    IN IF <<r, T>> \in env.failing
       THEN [st |-> [st1 EXCEPT !.ctorErrs[r][T] = @ + 1],
             res |-> Err("Ctor", T)]
       ELSE [st |-> st1, res |-> Ok(r, T, k)]

\* The bookkeeping of a resolve that returns: an Ok result is counted for
\* the provider that produced it.
returned(out) ==
    IF out.res.tag = "Ok"
    THEN [out EXCEPT !.st.okCalls[out.res.prov][out.res.of] = @ + 1,
                     !.st.insts[out.res.prov][out.res.of] =
                          @ \cup {out.res.inst}]
    ELSE out

RECURSIVE transient(_, _, _, _), singleton(_, _, _, _),
          materialise(_, _, _, _, _, _)

\* Result::expect(message) on the outcome of a resolve: an Err panics.
expect(out, message) ==
    IF out.res.tag = "Err"
    THEN [st |-> out.st, res |-> Panic(message, out.res.of)]
    ELSE out

\* <Transient<U> as Dep>::new and <Singleton<U> as Dep>::new: the resolve
\* of the handle's type with the handle's lifetime, and expect() on it.
Dep_new(st, env, r, handle) ==
    IF handle.dep = "Transient"
    THEN expect(transient(st, env, r, handle.ty),
                "transient dependency must only be constructed if it's fulfillable")
    ELSE expect(singleton(st, env, r, handle.ty),
                "singleton dependency must only be constructed if it's fulfillable")

RECURSIVE materialise_rev(_, _, _, _, _, _)
\* A tuple expression that evaluates its handles right to left.
materialise_rev(prev, env, r, T, deps, i) ==
    IF prev.res.tag # "Ok" THEN prev
    ELSE IF i > Len(deps) THEN [st |-> prev.st, res |-> Ok(r, T, 0)]
    ELSE materialise_rev(Dep_new(prev.st, env, r, deps[Len(deps) + 1 - i]),
                         env, r, T, deps, i + 1)

\* The tuple expression of DepBuilderImpl!: the handles from the i-th on,
\* left to right, after the handles before them gave `prev` (a panic in
\* one ends the expression).  T is the type the tuple is built for.
materialise(prev, env, r, T, deps, i) ==
    IF prev.res.tag # "Ok" THEN prev
    ELSE IF i > Len(deps) THEN [st |-> prev.st, res |-> Ok(r, T, 0)]
    ELSE materialise(Dep_new(prev.st, env, r, deps[i]), env, r, T, deps,
                     i + 1)

\* ctor(deps).map_err(ResolveError::Ctor) once the tuple is there.
ctor_of_tuple(tuple, env, r, T) ==
    IF tuple.res.tag # "Ok" THEN tuple ELSE call_ctor(tuple.st, env, r, T)

\* DepBuilder::build and DepBuilder::build_once after registry.validate
\* returned v: `?` on the verdict, then the tuple, then the constructor.
build_validated(v, st, env, r, T) ==
    IF v.verdict # "Ok"
    THEN [st |-> [st EXCEPT !.context[r] = v.context],
          res |-> Err("Validation" \o v.verdict, T)]
    ELSE ctor_of_tuple(
             materialise([st |-> [st EXCEPT !.context[r] = v.context],
                          res |-> Ok(r, T, 0)],
                         env, r, T, st.objects[r][T].deps, 1),
             env, r, T)

\* DepBuilder::build and DepBuilder::build_once for the tuple of T's
\* provider in r: validate, materialise the tuple, call the constructor.
\* The impl for the empty tuple only calls the constructor.
build(st, env, r, T) ==
    IF Len(st.objects[r][T].deps) = 0 THEN call_ctor(st, env, r, T)
    ELSE build_validated(
             validate(env.visitor[r], st.context[r], T, env.order[r]),
             st, env, r, T)

\* A transient builder that keeps what its first constructor call built.
make_transient_cached(st, env, r, T) ==
    IF st.ctorCalls[r][T] > st.ctorErrs[r][T]
    THEN [st |-> st, res |-> Ok(r, T, st.ctorCalls[r][T])]
    ELSE call_ctor(st, env, r, T)

\* A singleton getter that keeps its constructor and never looks at its
\* cell.
get_singleton_uncached(st, env, r, T) == call_ctor(st, env, r, T)

\* TransientBuilderImplNoDeps::make_transient.
TransientBuilderImplNoDeps_make_transient(st, env, r, T) ==
    call_ctor(st, env, r, T)

\* TransientBuilderImplWithDeps::make_transient.
TransientBuilderImplWithDeps_make_transient(st, env, r, T) ==
    build(st, env, r, T)

\* SingletonGetterNoDeps::get_singleton: cell.get_or_try_init around
\* taking the constructor and calling it.
SingletonGetterNoDeps_get_singleton(st, env, r, T) ==
    LET obj == st.objects[r][T] IN
    IF obj.cell # 0 THEN [st |-> st, res |-> Ok(r, T, obj.cell)]
    ELSE IF ~obj.ctor
    THEN [st |-> st, res |-> Panic("to be called only once", T)]
    ELSE LET taken == [st EXCEPT !.objects[r][T].ctor = FALSE]
             made == call_ctor(taken, env, r, T)
         IN IF made.res.tag # "Ok" THEN made
            ELSE [st |-> [made.st EXCEPT !.objects[r][T].cell = made.res.inst],
                  res |-> made.res]

\* cell.get_or_init(|| Ref::new(obj)) on what build_once made, and the
\* clone of the cell's content that is returned.
get_or_init(made, r, T) ==
    IF made.res.tag # "Ok" THEN made
    ELSE LET cell == made.st.objects[r][T].cell
             rc == IF cell = 0 THEN made.res.inst ELSE cell
         IN [st |-> [made.st EXCEPT !.objects[r][T].cell = rc],
             res |-> Ok(r, T, rc)]

\* SingletonGetterWithDeps::get_singleton: take the constructor, build_once,
\* then cell.get_or_init with the object built.
SingletonGetterWithDeps_get_singleton(st, env, r, T) ==
    IF ~st.objects[r][T].ctor
    THEN [st |-> st, res |-> Panic("to be called only once", T)]
    ELSE get_or_init(build([st EXCEPT !.objects[r][T].ctor = FALSE],
                           env, r, T),
                     r, T)

\* A lookup that builds a type without a provider as if it were registered
\* without dependencies.
transient_implicit(st, env, r, T) ==
    LET obj == st.objects[r][T] IN
    IF obj.kind = "Transient"
    THEN returned(IF obj.shape = "NoDeps"
                  THEN TransientBuilderImplNoDeps_make_transient(st, env, r, T)
                  ELSE TransientBuilderImplWithDeps_make_transient(st, env, r, T))
    ELSE IF parent(r) # NoReg THEN transient(st, env, parent(r), T)
    ELSE call_ctor(st, env, r, T)

\* A lookup that asks the validator of r before it delegates to the
\* parent.
transient_child_validates(st, env, r, T) ==
    LET obj == st.objects[r][T] IN
    IF obj.kind = "Transient"
    THEN returned(IF obj.shape = "NoDeps"
                  THEN TransientBuilderImplNoDeps_make_transient(st, env, r, T)
                  ELSE TransientBuilderImplWithDeps_make_transient(st, env, r, T))
    ELSE IF parent(r) # NoReg
    THEN (IF validate(env.visitor[r], st.context[r], T,
                      env.order[r]).verdict # "Ok"
          THEN [st |-> st, res |-> Err("ValidationMissing", T)]
          ELSE transient(st, env, parent(r), T))
    ELSE [st |-> st, res |-> Err("TypeMissing", T)]

\* Registry::transient::<T> on r.
transient(st, env, r, T) ==
    LET obj == st.objects[r][T] IN
    IF obj.kind = "Transient"
    THEN returned(IF obj.shape = "NoDeps"
                  THEN TransientBuilderImplNoDeps_make_transient(st, env, r, T)
                  ELSE TransientBuilderImplWithDeps_make_transient(st, env, r, T))
    ELSE IF upgrade(st, r) # NoReg THEN transient(st, env, upgrade(st, r), T)
    ELSE [st |-> st, res |-> Err("TypeMissing", T)]

\* A lookup that hands out what the provider of T in r builds, whatever
\* the lifetime T is registered with.
singleton_any_lifetime(st, env, r, T) ==
    LET obj == st.objects[r][T] IN
    IF obj.kind = "Singleton"
    THEN returned(IF obj.shape = "NoDeps"
                  THEN SingletonGetterNoDeps_get_singleton(st, env, r, T)
                  ELSE SingletonGetterWithDeps_get_singleton(st, env, r, T))
    ELSE IF obj.kind = "Transient"
    THEN returned(IF obj.shape = "NoDeps"
                  THEN TransientBuilderImplNoDeps_make_transient(st, env, r, T)
                  ELSE TransientBuilderImplWithDeps_make_transient(st, env, r, T))
    ELSE IF parent(r) # NoReg THEN singleton(st, env, parent(r), T)
    ELSE [st |-> st, res |-> Err("TypeMissing", T)]

\* Registry::singleton::<T> on r.
singleton(st, env, r, T) ==
    LET obj == st.objects[r][T] IN
    IF obj.kind = "Singleton"
    THEN returned(IF obj.shape = "NoDeps"
                  THEN SingletonGetterNoDeps_get_singleton(st, env, r, T)
                  ELSE SingletonGetterWithDeps_get_singleton(st, env, r, T))
    ELSE IF upgrade(st, r) # NoReg THEN singleton(st, env, upgrade(st, r), T)
    ELSE [st |-> st, res |-> Err("TypeMissing", T)]

(***************************************************************************)
(* Registration (registry.rs).                                             *)
(***************************************************************************)
\* The Object a register call builds: a transient builder, or a singleton
\* getter with its constructor stored and its cell empty.
Object(kind, shape, deps) ==
    [kind |-> kind, shape |-> shape, deps |-> deps, ctor |-> TRUE,
     cell |-> 0]

\* DepBuilder::as_typeids: the types of the tuple, in order.
as_typeids(deps) == [i \in 1..Len(deps) |-> deps[i].ty]

\* An insert that replaces the entry of an occupied key (HashMap::insert).
insert_overwrite(objs, r, T, value) ==
    [objects |-> [objs EXCEPT ![r][T] = value],
     res |-> [Ok(r, T, 0) EXCEPT !.prov = NoReg]]

\* An insert that returns without storing the entry of a free key.
insert_dropped(objs, r, T, value) ==
    IF objs[r][T].kind # "None"
    THEN [objects |-> objs, res |-> Panic("is already registered", T)]
    ELSE [objects |-> objs, res |-> [Ok(r, T, 0) EXCEPT !.prov = NoReg]]

\* Registry::insert_or_panic.
insert_or_panic(objs, r, T, value) ==
    IF objs[r][T].kind # "None"
    THEN [objects |-> objs, res |-> Panic("is already registered", T)]
    ELSE [objects |-> [objs EXCEPT ![r][T] = value],
          res |-> [Ok(r, T, 0) EXCEPT !.prov = NoReg]]

\* A register call that tells the validator before it inserts the object:
\* the visitor is stored and the context reset also when the insert
\* panics.
RegisterVisitorFirst(r, T, kind, shape, deps) ==
    LET ins == insert_or_panic(objects, r, T, Object(kind, shape, deps))
        added == add_visitor(visitor, context, r, T, as_typeids(deps))
    IN /\ last' = [op |-> "register", reg |-> r, ty |-> T, res |-> ins.res]
       /\ visitor' = added.visitor
       /\ context' = added.context
       /\ IF ins.res.tag = "Panic" THEN UNCHANGED objects
          ELSE objects' = ins.objects
       /\ UNCHANGED <<ctorCalls, ctorErrs, okCalls, insts, conc>>

\* The body shared by the four try_register_* functions (register_* wraps
\* an infallible constructor and calls them): insert the object, then tell
\* the validator.
Register(r, T, kind, shape, deps) ==
    LET ins == insert_or_panic(objects, r, T, Object(kind, shape, deps)) IN
    /\ last' = [op |-> "register", reg |-> r, ty |-> T, res |-> ins.res]
    /\ IF ins.res.tag = "Panic"
       THEN UNCHANGED <<objects, visitor, context>>
       ELSE LET added == add_visitor(visitor, context, r, T, as_typeids(deps))
            IN /\ objects' = ins.objects
               /\ visitor' = added.visitor
               /\ context' = added.context
    /\ UNCHANGED <<ctorCalls, ctorErrs, okCalls, insts, conc>>

\* Registry::try_register_transient (and register_transient).
TryRegisterTransient(r, T) == Register(r, T, "Transient", "NoDeps", << >>)

\* Registry::try_register_singleton (and register_singleton).
TryRegisterSingleton(r, T) == Register(r, T, "Singleton", "NoDeps", << >>)

\* Builder::try_register_transient (and register_transient) of
\* with_deps::<T, deps>().
BuilderTryRegisterTransient(r, T, deps) ==
    Register(r, T, "Transient", "WithDeps", deps)

\* Builder::try_register_singleton (and register_singleton) of
\* with_deps::<T, deps>().
BuilderTryRegisterSingleton(r, T, deps) ==
    Register(r, T, "Singleton", "WithDeps", deps)

(***************************************************************************)
(* The operations a caller runs to completion.                             *)
(***************************************************************************)
RECURSIVE SumOver(_, _)
SumOver(f, S) ==
    IF S = {} THEN 0
    ELSE LET x == CHOOSE y \in S : TRUE IN f[x] + SumOver(f, S \ {x})

\* The user constructor invocations so far, over all providers.
TotalCtorCalls ==
    SumOver([x \in Regs \X Types |-> ctorCalls[x[1]][x[2]]], Regs \X Types)

\* The keys of r's visitor map.
Visitors(r) == {T \in Types : visitor[r][T].present}

\* The iteration orders of r's visitor map that a call may meet: every
\* order when the call may run the walk (no verdict is cached), one order
\* otherwise, as the map is not iterated then.
OrdersOf(r) ==
    IF validate_context(context[r]) = "Stale" THEN Perms(Visitors(r))
    ELSE {CHOOSE q \in Perms(Visitors(r)) : TRUE}

Orders ==
    {[r \in Regs |-> IF r = "p" THEN a ELSE b] :
        a \in OrdersOf("p"), b \in OrdersOf("c")}

\* The resolves that returned Ok so far, over all providers.
TotalOkCalls ==
    SumOver([x \in Regs \X Types |-> okCalls[x[1]][x[2]]], Regs \X Types)

\* A caller may start one more resolve.
MayResolve == TotalCtorCalls < MaxCtorCalls /\ TotalOkCalls < MaxOkCalls

\* The state a completed resolve leaves.
Commit(op, r, T, out) ==
    /\ objects' = out.st.objects
    /\ context' = out.st.context
    /\ ctorCalls' = out.st.ctorCalls
    /\ ctorErrs' = out.st.ctorErrs
    /\ okCalls' = out.st.okCalls
    /\ insts' = out.st.insts
    /\ last' = [op |-> op, reg |-> r, ty |-> T, res |-> out.res]
    /\ UNCHANGED <<visitor, conc>>

\* What the user constructors may do during one call: none returns Err,
\* or the constructor of one registered provider does (a call ends with
\* the first constructor error, so no call sees two).
Failing ==
    {{}} \cup {{x} : x \in {y \in Regs \X Types :
                                 objects[y[1]][y[2]].kind # "None"}}

\* registry.transient::<T>().
Transient(r, T) ==
    /\ MayResolve
    /\ \E order \in Orders : \E fail \in Failing :
          Commit("transient", r, T, transient(State, Env(order, fail), r, T))

\* registry.singleton::<T>().
Singleton(r, T) ==
    /\ MayResolve
    /\ \E order \in Orders : \E fail \in Failing :
          Commit("singleton", r, T, singleton(State, Env(order, fail), r, T))

\* registry.validate_all().
ValidateAll(r) ==
    \E order \in Orders :
       LET v == validate_all(visitor[r], context[r], order[r]) IN
       /\ context' = [context EXCEPT ![r] = v.context]
       /\ last' = [op |-> "validate_all", reg |-> r, ty |-> "",
                   res |-> IF v.verdict = "Ok"
                           THEN [NoResult EXCEPT !.tag = "Ok"]
                           ELSE Err(v.verdict, "")]
       /\ UNCHANGED <<objects, visitor, ctorCalls, ctorErrs, okCalls,
                      insts, conc>>

\* registry.validate::<T>().
RegistryValidate(r, T) ==
    \E order \in Orders :
       LET v == validate(visitor[r], context[r], T, order[r]) IN
       /\ context' = [context EXCEPT ![r] = v.context]
       /\ last' = [op |-> "validate", reg |-> r, ty |-> T,
                   res |-> IF v.verdict = "Ok"
                           THEN [NoResult EXCEPT !.tag = "Ok"]
                           ELSE Err(v.verdict, "")]
       /\ UNCHANGED <<objects, visitor, ctorCalls, ctorErrs, okCalls,
                      insts, conc>>

\* registry.dotgraph().
Dotgraph(r) ==
    \E order \in Orders :
       LET d == dotgraph(visitor[r], context[r], order[r]) IN
       /\ context' = [context EXCEPT ![r] = d.context]
       /\ last' = [op |-> "dotgraph", reg |-> r, ty |-> "", res |-> d.res]
       /\ UNCHANGED <<objects, visitor, ctorCalls, ctorErrs, okCalls,
                      insts, conc>>

\* registry.validate_all_full().
ValidateAllFull(r) ==
    \E order \in Perms(Visitors(r)) : \E iter \in Perms(Types) :
       /\ last' = [op |-> "validate_all_full", reg |-> r, ty |-> "",
                   res |-> validate_all_full(visitor[r], order, iter)]
       /\ UNCHANGED <<objects, visitor, context, ctorCalls, ctorErrs,
                      okCalls, insts, conc>>

(***************************************************************************)
(* Spec: one root registry wired by the caller without a cycle, and        *)
(* resolved.                                                               *)
(***************************************************************************)
\* The wiring the caller may declare: u8 without dependencies, u16 on u8,
\* u32 on u8 and u16 with one handle of each lifetime, each with either
\* lifetime of its own.  A handle need not name the lifetime its type is
\* registered with.
DepTuples(T) ==
    IF T = "u16" THEN {<<Handle(d, "u8")>> : d \in Lifetimes}
    ELSE IF T = "u32"
    THEN {<<Handle("Transient", "u8"), Handle("Singleton", "u16")>>,
          <<Handle("Singleton", "u8"), Handle("Transient", "u16")>>}
    ELSE {}

NoDepsTypes == {"u8"}

Init ==
    /\ objects = [r \in Regs |-> [T \in Types |-> NoObject]]
    /\ visitor = [r \in Regs |-> [T \in Types |-> NoVisitor]]
    /\ context = [r \in Regs |-> VisitorContext_new]
    /\ ctorCalls = [r \in Regs |-> [T \in Types |-> 0]]
    /\ ctorErrs = [r \in Regs |-> [T \in Types |-> 0]]
    /\ okCalls = [r \in Regs |-> [T \in Types |-> 0]]
    /\ insts = [r \in Regs |-> [T \in Types |-> {}]]
    /\ last = [op |-> "none", reg |-> NoReg, ty |-> "", res |-> NoResult]
    /\ threads = [t \in Threads |-> IdleThread]
    /\ objects_lock = [readers |-> [t \in Threads |-> 0],
                       writer |-> NoThread]
    /\ validator_lock = [l \in {"visitor", "context"} |->
                            [readers |-> [t \in Threads |-> 0],
                             writer |-> NoThread]]
    /\ default_registry = [cell |-> 0, running |-> NoThread, made |-> 0,
                           invoked |-> [T \in Types |-> 0]]
    /\ strong = [r \in Regs |-> 1]

Next ==
    \/ \E T \in NoDepsTypes : TryRegisterTransient("p", T)
    \/ \E T \in NoDepsTypes : TryRegisterSingleton("p", T)
    \/ \E T \in Types : \E deps \in DepTuples(T) :
          BuilderTryRegisterTransient("p", T, deps)
    \/ \E T \in Types : \E deps \in DepTuples(T) :
          BuilderTryRegisterSingleton("p", T, deps)
    \/ \E T \in Types : Transient("p", T)
    \/ \E T \in Types : Singleton("p", T)
    \/ ValidateAll("p")

Spec == Init /\ [][Next]_vars

(***************************************************************************)
(* Properties of Spec.                                                     *)
(***************************************************************************)
\* The message of the expect() in both singleton getters.
OnlyOnce == "to be called only once"

\* The messages of the expect() in Transient::new and Singleton::new.
Unfulfillable ==
    {"transient dependency must only be constructed if it's fulfillable",
     "singleton dependency must only be constructed if it's fulfillable"}

\* C1: for a type registered as a singleton, all resolves that returned Ok
\* returned the same instance, and the user constructor of the type was
\* invoked exactly once.
C1_SingletonBuiltOnce ==
    \A r \in Regs, T \in Types :
        (objects[r][T].kind = "Singleton" /\ okCalls[r][T] > 0)
            => (ctorCalls[r][T] = 1 /\ Cardinality(insts[r][T]) = 1)

\* Two singleton resolves of one type returned Ok.
C1_Witness ==
    \E T \in Types :
        /\ objects["p"][T].kind = "Singleton"
        /\ okCalls["p"][T] >= 2
        /\ last.op = "singleton" /\ last.ty = T /\ last.res.tag = "Ok"

\* C2: once singleton::<T>() has returned Ok, every later singleton::<T>()
\* returns Ok (no error, no panic), also for a singleton with dependencies.
C2_SingletonStaysOk ==
    (/\ last.op = "singleton"
     /\ last.reg \in Regs
     /\ objects[last.reg][last.ty].kind = "Singleton"
     /\ okCalls[last.reg][last.ty] > 0)
        => (last.res.tag = "Ok" /\ last.res.inst \in insts[last.reg][last.ty])

\* C4: for a type registered as a transient every Ok resolve is one more
\* constructor invocation of its own: k Ok resolves are k constructor runs
\* that returned a value, and k distinct values.
C4_TransientBuiltAnew ==
    \A r \in Regs, T \in Types :
        objects[r][T].kind = "Transient"
            => (/\ ctorCalls[r][T] - ctorErrs[r][T] = okCalls[r][T]
                /\ Cardinality(insts[r][T]) = okCalls[r][T])

\* Two transient resolves of one type returned Ok.
C4_Witness ==
    \E T \in Types :
        /\ objects["p"][T].kind = "Transient"
        /\ okCalls["p"][T] >= 2
        /\ last.op = "transient" /\ last.ty = T /\ last.res.tag = "Ok"

\* C7: a singleton whose constructor returned Err is not poisoned: a later
\* singleton::<T>() does not panic, it runs the constructor again.
C7_FailedCtorNotPoisoned ==
    (/\ last.op = "singleton"
     /\ last.reg \in Regs
     /\ objects[last.reg][last.ty].kind = "Singleton"
     /\ ctorErrs[last.reg][last.ty] > 0)
        => last.res.tag # "Panic"

\* C8: a dependency that fails while the tuple of T is materialised makes
\* the resolve of T return that error as Err: the call does not panic.
C8_DependencyErrorPropagates ==
    last.res.tag = "Panic" => last.res.what \notin Unfulfillable

\* The provider stored in a slot of the objects table, without the state
\* of its constructor slot and its cell.
Provider(obj) == [kind |-> obj.kind, shape |-> obj.shape, deps |-> obj.deps]

\* C12: a register call for a type that already has a provider in the
\* registry panics and changes nothing, whatever the lifetimes of the first
\* and the second registration; a register call for a free type returns and
\* stores its provider; and no step replaces or removes a stored provider,
\* so a type never has had two.
C12_RegisteredTwicePanics ==
    [][/\ \A r \in Regs, T \in Types :
             objects[r][T].kind # "None"
                 => Provider(objects'[r][T]) = Provider(objects[r][T])
       /\ (last'.op = "register" /\ last' # last)
             => IF objects[last'.reg][last'.ty].kind # "None"
                THEN /\ last'.res.tag = "Panic"
                     /\ UNCHANGED <<objects, visitor, context>>
                ELSE /\ last'.res.tag = "Ok"
                     /\ objects'[last'.reg][last'.ty].kind # "None"]_vars

\* A register call panicked on a type registered as a singleton whose
\* cell is filled: the provider and its instance are still there.
C12_Witness ==
    /\ last.op = "register"
    /\ last.res.tag = "Panic"
    /\ objects[last.reg][last.ty].kind = "Singleton"
    /\ objects[last.reg][last.ty].cell # 0

\* C38: a register call that panics because the type is registered
\* already leaves the registry as it was: the provider of the type (with
\* the instance of a singleton), the visitors with the dependencies they
\* declare, the context with its memoised verdict, and all counts.
C38_PanickedRegisterNoEffect ==
    [][(last'.op = "register" /\ last'.res.tag = "Panic")
          => /\ objects[last'.reg][last'.ty].kind # "None"
             /\ UNCHANGED <<objects, visitor, context, ctorCalls, ctorErrs,
                            okCalls, insts>>]_vars

\* A second register call for a singleton has panicked; the singleton
\* holds its instance and the context a memoised verdict.
C38_Witness ==
    /\ last.op = "register"
    /\ last.res.tag = "Panic"
    /\ objects["p"][last.ty].kind = "Singleton"
    /\ objects["p"][last.ty].cell # 0
    /\ okCalls["p"][last.ty] > 0
    /\ context["p"].validation_cache.some
    /\ context["p"].validation_cache.ok

\* C17: a transient whose constructor returned Err has cached nothing:
\* the next transient::<T>() invokes the constructor again and reports its
\* result, Ok with a new value when the constructors succeed, Err(Ctor)
\* when T's fails again.
C17_FailedTransientRetried ==
    \A T \in Types :
        (objects["p"][T].kind = "Transient" /\ ctorErrs["p"][T] > 0)
            => \A order \in Orders :
                 /\ transient(State, Env(order, {}), "p", T).res
                        = Ok("p", T, ctorCalls["p"][T] + 1)
                 /\ transient(State, Env(order, {<<"p", T>>}), "p", T).res
                        = Err("Ctor", T)

\* C30: the validator is sound for resolution.  Whenever validate_all
\* would return Ok on the root registry and no user constructor has
\* returned or returns Err, resolving each registered type with the
\* lifetime it is registered with returns Ok, whichever lifetimes the
\* handles of the dependency tuples name.
C30_ValidatorSound ==
    \A order \in Orders :
        (/\ validate_all(visitor["p"], context["p"], order["p"]).verdict
                = "Ok"
         /\ \A T \in Types : ctorErrs["p"][T] = 0)
            => \A T \in Types :
                  /\ objects["p"][T].kind = "Transient"
                       => transient(State, Env(order, {}), "p", T).res.tag
                              = "Ok"
                  /\ objects["p"][T].kind = "Singleton"
                       => singleton(State, Env(order, {}), "p", T).res.tag
                              = "Ok"

(***************************************************************************)
(* SpecCycle: one registry whose providers may declare any type as their   *)
(* dependency, themselves included, so that its graph may have cycles and  *)
(* missing dependencies.                                                   *)
(***************************************************************************)
\* The dependency tuples a caller may declare for T: they allow the self
\* loop of u16, the cycles u8 -> u16 -> u8 and u8 -> u16 -> u32 -> u8, and
\* the chain u16 -> u32 -> u8.
DepTuplesCycle(T) ==
    IF T = "u8"
    THEN {<<Handle("Transient", "u16")>>,
          <<Handle("Transient", "u16"), Handle("Transient", "u32")>>}
    ELSE IF T = "u16" THEN {<<Handle("Transient", U)>> : U \in Types}
    ELSE {<<Handle("Transient", "u8")>>}

\* The types a caller may register as a singleton with dependencies.
CycleSingletons == {"u16"}

NextCycle ==
    \/ \E T \in Types \ CycleSingletons : TryRegisterTransient("p", T)
    \/ \E T \in Types : \E deps \in DepTuplesCycle(T) :
          BuilderTryRegisterTransient("p", T, deps)
    \/ \E T \in CycleSingletons : \E deps \in DepTuplesCycle(T) :
          BuilderTryRegisterSingleton("p", T, deps)
    \/ \E T \in Types : Transient("p", T)
    \/ \E T \in Types : Singleton("p", T)
    \/ ValidateAll("p")

SpecCycle == Init /\ [][NextCycle]_vars

\* The types registered in r, and the types T's registration declares as
\* its dependencies.
Registered(r) == {T \in Types : objects[r][T].kind # "None"}

DeclaredDeps(r, T) ==
    {objects[r][T].deps[i].ty : i \in 1..Len(objects[r][T].deps)}

RECURSIVE ReachableFrom(_, _)
\* The types reached from the set S along declared dependencies.
ReachableFrom(r, S) ==
    LET more == S \cup UNION {DeclaredDeps(r, T) : T \in S} IN
    IF more = S THEN S ELSE ReachableFrom(r, more)

\* Some registered type declares a dependency that is not registered in r.
HasMissing(r) ==
    \E T \in Registered(r) : ~(DeclaredDeps(r, T) \subseteq Registered(r))

\* T lies on a directed cycle of declared dependencies.
OnCycle(r, T) == T \in ReachableFrom(r, DeclaredDeps(r, T))

HasCycle(r) == \E T \in Registered(r) : OnCycle(r, T)

\* C5: validate_all returns Err(Missing) if some registered type declares
\* a dependency that is not registered, otherwise Err(Cycle) if the
\* declared dependencies contain a directed cycle, otherwise Ok; whatever
\* was registered, validated or resolved before.
C5_ValidateAllVerdict ==
    (last.op = "validate_all" /\ last.reg \in Regs)
        => last.res = (IF HasMissing(last.reg) THEN Err("Missing", "")
                       ELSE IF HasCycle(last.reg) THEN Err("Cycle", "")
                       ELSE [NoResult EXCEPT !.tag = "Ok"])

\* validate_all reports the cycle that a provider added after a successful
\* validation (the one of an Ok resolve with dependencies) has closed.
C5_Witness ==
    /\ last.op = "validate_all"
    /\ last.res = Err("Cycle", "")
    /\ \E T \in Types : objects["p"][T].shape = "WithDeps"
                            /\ okCalls["p"][T] > 0

\* C6: with a directed cycle among the registered providers, a transient
\* or singleton resolve of a type on the cycle returns a Ctor error or a
\* validation error.
C6_CycleResolveReturnsError ==
    (/\ last.op \in {"transient", "singleton"}
     /\ last.reg \in Regs
     /\ OnCycle(last.reg, last.ty)
     /\ objects[last.reg][last.ty].kind =
            (IF last.op = "transient" THEN "Transient" ELSE "Singleton"))
        => (/\ last.res.tag = "Err"
            /\ last.res.what \in {"Ctor", "ValidationCycle",
                                   "ValidationMissing"})

\* The verdict that the providers registered in r call for.
Verdict(r) ==
    IF HasMissing(r) THEN "Missing" ELSE IF HasCycle(r) THEN "Cycle" ELSE "Ok"

\* C13: a register call that returned has dropped the memoised verdict:
\* the context holds no verdict, no graph and no missing entry, and the
\* next validate_all walks the visitors and returns the verdict of the
\* providers registered now, the new one included.
C13_RegisterDropsVerdict ==
    (last.op = "register" /\ last.res.tag = "Ok")
        => /\ context[last.reg] = VisitorContext_new
           /\ \A order \in Perms(Visitors(last.reg)) :
                 validate_all(visitor[last.reg], context[last.reg],
                              order).verdict = Verdict(last.reg)

\* A provider registered after an Ok verdict (the one of an Ok resolve
\* with dependencies) has closed a cycle: the verdict is Err(Cycle) now.
C13_Witness ==
    /\ last.op = "register"
    /\ last.res.tag = "Ok"
    /\ Verdict(last.reg) = "Cycle"
    /\ \E T \in Types : objects[last.reg][T].shape = "WithDeps"
                            /\ okCalls[last.reg][T] > 0

\* What validate_context finds in a context that holds the verdict `res`.
Memoised(res) ==
    IF res.tag = "Ok" THEN "Cached" ELSE res.what

\* C14: validate_all is memoised.  A validate_all leaves its verdict in
\* the context; while the context holds a verdict, every step other than
\* a successful register call leaves the context as it is (no visitor
\* runs, the graph is not rebuilt), and a validate_all among those steps
\* returns the verdict held: Ok, Err(Missing) or Err(Cycle).
C14_ValidateAllMemoised ==
    [][/\ (last'.op = "validate_all")
             => validate_context(context'[last'.reg]) = Memoised(last'.res)
       /\ \A r \in Regs :
             (validate_context(context[r]) # "Stale"
                 /\ visitor'[r] = visitor[r])
                 => /\ context'[r] = context[r]
                    /\ (last'.op = "validate_all" /\ last'.reg = r)
                          => validate_context(context[r])
                                 = Memoised(last'.res)]_vars

\* validate_all has returned Err(Missing) from a context that holds the
\* missing entries and the result of the walk that found them.
C14_Witness ==
    /\ last.op = "validate_all"
    /\ last.res = Err("Missing", "")
    /\ context[last.reg].validation_cache.some
    /\ DOMAIN context[last.reg].missing # {}

\* C31: a resolve that fails validation does not damage the provider.  A
\* singleton registered with dependencies whose constructor has not run
\* yet (every resolve of it so far returned Err(Validation)) resolves Ok,
\* and runs its constructor once, as soon as the registry validates Ok
\* and no constructor has failed.
C31_ValidationFailureHarmless ==
    \A T \in Types :
        (/\ objects["p"][T].kind = "Singleton"
         /\ objects["p"][T].shape = "WithDeps"
         /\ Verdict("p") = "Ok"
         /\ \A U \in Types : ctorCalls["p"][U] = 0 /\ okCalls["p"][U] = 0)
            => \A order \in Orders :
                 /\ singleton(State, Env(order, {}), "p", T).res
                        = Ok("p", T, 1)
                 /\ singleton(State, Env(order, {}), "p", T)
                        .st.ctorCalls["p"][T] = 1

\* C16: while validate_all of the registry would return Err, a resolve of
\* a type registered with dependencies returns Err(Validation(_)) with
\* that verdict and runs no constructor, and a resolve of a type without
\* a provider returns an error.
C16_IllFormedResolveReturnsValidation ==
    [][(/\ last'.op \in {"transient", "singleton"}
        /\ last'.reg \in Regs
        /\ Verdict(last'.reg) # "Ok")
          => /\ (/\ objects[last'.reg][last'.ty].shape = "WithDeps"
                 /\ objects[last'.reg][last'.ty].kind =
                        (IF last'.op = "transient" THEN "Transient"
                         ELSE "Singleton"))
                   => /\ last'.res.tag = "Err"
                      /\ last'.res.what
                             = "Validation" \o Verdict(last'.reg)
                      /\ ctorCalls' = ctorCalls
             /\ objects[last'.reg][last'.ty].kind = "None"
                   => last'.res.tag = "Err"]_vars

(***************************************************************************)
(* SpecChild: the root p and its child c.  The caller wires p, may give c  *)
(* a provider of its own for a type that p can provide too, and resolves   *)
(* through c.                                                              *)
(***************************************************************************)
ChildTypes == {"u8"}

NextChild ==
    \/ \E T \in NoDepsTypes : TryRegisterTransient("p", T)
    \/ \E T \in NoDepsTypes : TryRegisterSingleton("p", T)
    \/ \E deps \in DepTuples("u16") :
          BuilderTryRegisterTransient("p", "u16", deps)
    \/ \E deps \in DepTuples("u16") :
          BuilderTryRegisterSingleton("p", "u16", deps)
    \/ \E T \in ChildTypes : TryRegisterTransient("c", T)
    \/ \E T \in Types : Transient("c", T)
    \/ \E T \in Types : Singleton("c", T)

SpecChild == Init /\ [][NextChild]_vars

\* C10: for a type registered in the parent p and not in its child c, a
\* transient / singleton resolve through c does what the same resolve
\* through p would do in that state: the same result (Ok with the value of
\* p's provider, or the same failure) and the same effect, whatever the
\* constructors do.
C10_ChildDelegates ==
    \A T \in Registered("p") \ Registered("c") :
        \A order \in Orders : \A fail \in Failing :
            /\ transient(State, Env(order, fail), "c", T)
                  = transient(State, Env(order, fail), "p", T)
            /\ singleton(State, Env(order, fail), "c", T)
                  = singleton(State, Env(order, fail), "p", T)

\* A resolve through c of a type registered only in p returned the value
\* of p's provider, while c has a provider of its own for another type
\* (one that p's provider depends on).
C10_Witness ==
    /\ last.op \in {"transient", "singleton"}
    /\ last.reg = "c"
    /\ last.ty \in Registered("p") \ Registered("c")
    /\ last.res.tag = "Ok" /\ last.res.prov = "p"
    /\ Registered("c") # {}

\* C11: when the child c has a provider of its own for a type that its
\* parent p provides too, a resolve of the type through c that returns Ok
\* returns what c's provider built, and a resolve through p what p's built.
C11_ChildShadows ==
    (/\ last.op \in {"transient", "singleton"}
     /\ last.reg \in Regs
     /\ last.ty \in Registered("c") \cap Registered("p")
     /\ last.res.tag = "Ok")
        => last.res.prov = last.reg

\* Neither r nor its parent has an entry for T.
NoProvider(r, T) ==
    /\ objects[r][T].kind = "None"
    /\ parent(r) # NoReg => objects[parent(r)][T].kind = "None"

\* C25: transient::<T>() and singleton::<T>() for a type that has no
\* provider in the registry nor in its parent return
\* Err(TypeMissing) naming T and change nothing: no constructor runs, no
\* cell is filled, no provider, visitor or verdict changes.
C25_TypeMissingNoEffect ==
    [][(/\ last' # last
        /\ last'.op \in {"transient", "singleton"}
        /\ NoProvider(last'.reg, last'.ty))
          => /\ last'.res = Err("TypeMissing", last'.ty)
             /\ UNCHANGED <<objects, visitor, context, ctorCalls, ctorErrs,
                            okCalls, insts>>]_vars

\* C34: a singleton U registered in the parent p only is shared by p and
\* its child c.  Once a singleton::<U>() has returned Ok, a further
\* singleton::<U>() through p and one through c both return Ok with that
\* one instance, and U's constructor has run once and does not run again.
C34_ParentSingletonShared ==
    \A U \in Types :
        (/\ objects["p"][U].kind = "Singleton"
         /\ objects["c"][U].kind = "None"
         /\ okCalls["p"][U] > 0)
            => /\ ctorCalls["p"][U] = 1
               /\ insts["p"][U] = {1}
               /\ \A r \in Regs : \A order \in Orders :
                     /\ singleton(State, Env(order, {}), r, U).res
                            = Ok("p", U, 1)
                     /\ singleton(State, Env(order, {}), r, U)
                            .st.ctorCalls["p"][U] = 1

\* The lifetime that a resolve operation asks for.
Requested(op) == IF op = "transient" THEN "Transient" ELSE "Singleton"

\* T has a provider in r, registered with the other lifetime than the one
\* that op asks for.
OtherLifetime(r, T, op) ==
    objects[r][T].kind \in Lifetimes \ {Requested(op)}

C25_Witness ==
    /\ last.op \in {"transient", "singleton"}
    /\ last.reg = "c"
    /\ NoProvider("c", last.ty)
    /\ last.res = Err("TypeMissing", last.ty)
    /\ Registered("c") # {}
    /\ TotalOkCalls > 0

(***************************************************************************)
(* SpecChildDeps: the root p provides u8; its child c registers u16 with   *)
(* a dependency on u8, which only p can provide, and is resolved and       *)
(* validated.                                                              *)
(***************************************************************************)
NextChildDeps ==
    \/ TryRegisterTransient("p", "u8")
    \/ TryRegisterSingleton("p", "u8")
    \/ \E deps \in DepTuples("u16") :
          BuilderTryRegisterTransient("c", "u16", deps)
    \/ \E deps \in DepTuples("u16") :
          BuilderTryRegisterSingleton("c", "u16", deps)
    \/ \E T \in Types : Transient("c", T)
    \/ \E T \in Types : Singleton("c", T)
    \/ ValidateAll("c")
    \/ ValidateAll("p")

SpecChildDeps == Init /\ [][NextChildDeps]_vars

\* Every handle of T's tuple in c names a type that c does not provide and
\* that the parent p provides with the lifetime of the handle.
ParentProvidesDeps(T) ==
    \A i \in 1..Len(objects["c"][T].deps) :
        LET h == objects["c"][T].deps[i] IN
        /\ objects["c"][h.ty].kind = "None"
        /\ objects["p"][h.ty].kind = h.dep

\* C24: a type registered with dependencies in the child c, all of them
\* provided by the parent p only, is resolved through c: the resolve with
\* the lifetime T is registered with returns Ok with what c's provider of T
\* built, and p's providers have built the dependencies.
C24_ChildDepsFromParent ==
    \A T \in Types :
        (/\ objects["c"][T].shape = "WithDeps"
         /\ objects["c"][T].ctor
         /\ ParentProvidesDeps(T))
            => \A order \in Orders :
                  LET out == IF objects["c"][T].kind = "Transient"
                             THEN transient(State, Env(order, {}), "c", T)
                             ELSE singleton(State, Env(order, {}), "c", T)
                  IN /\ out.res.tag = "Ok"
                     /\ out.res.prov = "c"
                     /\ \A i \in 1..Len(objects["c"][T].deps) :
                           LET U == objects["c"][T].deps[i].ty IN
                           out.st.okCalls["p"][U] = okCalls["p"][U] + 1

(***************************************************************************)
(* SpecParentDeps: the root p provides u8 and, with a dependency on u8,    *)
(* u16; its child c has a provider of its own for u8 and one for u32 whose *)
(* dependencies c's validator does not know, and the caller resolves       *)
(* through c.                                                              *)
(***************************************************************************)
\* The tuple of c's provider of u32: c's validator has no visitor for u16.
ChildTuple == <<Handle("Transient", "u8"), Handle("Singleton", "u16")>>

\* The types the caller resolves through c.
ParentDepsTypes == {"u8", "u16"}

\* The tuple of p's provider of u16.
ParentTuple == <<Handle("Transient", "u8")>>

NextParentDeps ==
    \/ TryRegisterTransient("p", "u8")
    \/ BuilderTryRegisterTransient("p", "u16", ParentTuple)
    \/ BuilderTryRegisterSingleton("p", "u16", ParentTuple)
    \/ TryRegisterTransient("c", "u8")
    \/ BuilderTryRegisterTransient("c", "u32", ChildTuple)
    \/ \E T \in ParentDepsTypes : Transient("c", T)
    \/ \E T \in ParentDepsTypes : Singleton("c", T)
    \/ ValidateAll("c")

SpecParentDeps == Init /\ [][NextParentDeps]_vars

\* The providers of the child, one and all: a resolve that reads `failing`
\* as this set sees every constructor of the child return Err.
ChildCtors == {<<"c", U>> : U \in Types}

\* What a resolve leaves of the child: its table, its validation context
\* and the counts of its providers.
ChildPart(st) ==
    [objects |-> st.objects["c"], context |-> st.context["c"],
     ctorCalls |-> st.ctorCalls["c"], okCalls |-> st.okCalls["c"],
     insts |-> st.insts["c"]]

\* C33: a type T registered with dependencies in the parent p only is
\* built against p when the child c resolves it.  The resolve through c
\* returns what the same resolve on p returns and leaves the state that
\* one leaves, whether the constructors of c's providers succeed or fail
\* and whatever c's validator holds; nothing of c changes, and when the
\* result is Ok each dependency came from p's provider.
C33_ParentBuildsItsOwn ==
    \A T \in Types :
        (objects["c"][T].kind = "None" /\ objects["p"][T].shape = "WithDeps")
            => \A order \in Orders :
                 /\ transient(State, Env(order, ChildCtors), "c", T)
                        = transient(State, Env(order, {}), "p", T)
                 /\ singleton(State, Env(order, ChildCtors), "c", T)
                        = singleton(State, Env(order, {}), "p", T)
                 /\ ChildPart(transient(State, Env(order, {}), "c", T).st)
                        = ChildPart(State)
                 /\ ChildPart(singleton(State, Env(order, {}), "c", T).st)
                        = ChildPart(State)
                 /\ transient(State, Env(order, {}), "c", T).res.tag = "Ok"
                       => \A i \in 1..Len(objects["p"][T].deps) :
                            transient(State, Env(order, {}), "c", T)
                                .st.okCalls["p"][objects["p"][T].deps[i].ty]
                              > okCalls["p"][objects["p"][T].deps[i].ty]
                 /\ singleton(State, Env(order, {}), "c", T).res.tag = "Ok"
                       => (objects["p"][T].cell # 0
                           \/ \A i \in 1..Len(objects["p"][T].deps) :
                                singleton(State, Env(order, {}), "c", T)
                                  .st.okCalls["p"][objects["p"][T].deps[i].ty]
                                > okCalls["p"][objects["p"][T].deps[i].ty])

\* A resolve through c of u16, which only p provides, has returned what
\* p's provider built, while c has a provider of its own for u8, the
\* dependency of u16, and c's own providers do not validate.
C33_Witness ==
    /\ last.op \in {"transient", "singleton"}
    /\ last.reg = "c"
    /\ last.ty = "u16"
    /\ objects["c"]["u16"].kind = "None"
    /\ objects["p"]["u16"].shape = "WithDeps"
    /\ objects["c"]["u8"].kind # "None"
    /\ Verdict("c") # "Ok"
    /\ last.res.tag = "Ok"
    /\ last.res.prov = "p"

(***************************************************************************)
(* SpecOrphan: the root p and its child c, each with providers; the caller *)
(* resolves through c and may drop its last reference to p meanwhile.      *)
(***************************************************************************)
\* drop(p): the caller gives up its only Ref to the root.  What p held is
\* out of reach from then on.
DropParent ==
    /\ strong["p"] = 1
    /\ strong' = [strong EXCEPT !["p"] = 0]
    /\ last' = [op |-> "drop", reg |-> "p", ty |-> "",
                res |-> [NoResult EXCEPT !.tag = "Ok"]]
    /\ UNCHANGED <<objects, visitor, context, ctorCalls, ctorErrs, okCalls,
                   insts, threads, objects_lock, validator_lock,
                   default_registry>>

\* The tuple of c's provider of u32: a type that c provides itself.
OrphanTuple == <<Handle("Transient", "u8")>>

NextOrphan ==
    \/ strong["p"] > 0 /\ TryRegisterTransient("p", "u8")
    \/ strong["p"] > 0 /\ TryRegisterSingleton("p", "u8")
    \/ TryRegisterTransient("c", "u8")
    \/ BuilderTryRegisterTransient("c", "u32", OrphanTuple)
    \/ \E T \in Types : Transient("c", T)
    \/ \E T \in Types : Singleton("c", T)
    \/ DropParent

SpecOrphan == Init /\ [][NextOrphan]_vars

\* The state as it would be with the caller's reference to p still held.
ParentHeld == [State EXCEPT !.strong["p"] = 1]

\* What a resolve returns and leaves, the references aside.
Effect(out) == [out EXCEPT !.st.strong = strong]

DepTuplesValidator(T) ==
    {<<Handle("Transient", U)>> : U \in Types}
        \cup (IF T = "u8"
              THEN {<<Handle("Transient", "u16"), Handle("Transient", "u32")>>}
              ELSE IF T = "u16"
              THEN {<<Handle("Transient", "u32"), Handle("Singleton", "u32")>>}
              ELSE {<<Handle("Transient", "u8"), Handle("Transient", "u16")>>})

NextValidator ==
    \/ \E T \in Types : TryRegisterTransient("p", T)
    \/ \E T \in Types : \E deps \in DepTuplesValidator(T) :
          BuilderTryRegisterTransient("p", T, deps)
    \/ ValidateAll("p")
    \/ ValidateAllFull("p")
    \/ \E T \in Types : RegistryValidate("p", T)
    \/ Dotgraph("p")

SpecValidator == Init /\ [][NextValidator]_vars

\* The types registered in r that declare a dependency not registered in r.
MissingOwners(r) ==
    {T \in Registered(r) : ~(DeclaredDeps(r, T) \subseteq Registered(r))}

\* C15: when a registered type declares an unregistered dependency,
\* validate_all_full returns Missing with one entry per such type, no
\* entry for another type and no two for one, and the entry of a type
\* lists its unregistered declared dependencies and nothing else.
C15_FullListsMissing ==
    (last.op = "validate_all_full" /\ HasMissing(last.reg))
        => /\ last.res.tag = "Err" /\ last.res.what = "Missing"
           /\ LET vec == last.res.missing IN
              /\ {vec[i].ty : i \in 1..Len(vec)} = MissingOwners(last.reg)
              /\ \A i, j \in 1..Len(vec) : vec[i].ty = vec[j].ty => i = j
              /\ \A i \in 1..Len(vec) :
                    {vec[i].deps[k] : k \in 1..Len(vec[i].deps)}
                        = DeclaredDeps(last.reg, vec[i].ty)
                              \ Registered(last.reg)

\* validate_all_full listed two types with a missing dependency, one of
\* which declares a registered dependency too.
C15_Witness ==
    /\ last.op = "validate_all_full"
    /\ last.res.tag = "Err" /\ last.res.what = "Missing"
    /\ Len(last.res.missing) >= 2
    /\ \E T \in MissingOwners(last.reg) :
          DeclaredDeps(last.reg, T) \cap Registered(last.reg) # {}

\* T is registered in r, every type reached from T along declared
\* dependencies is registered, and none of them lies on a cycle.
Constructible(r, T) ==
    /\ T \in Registered(r)
    /\ ReachableFrom(r, {T}) \subseteq Registered(r)
    /\ \A U \in ReachableFrom(r, {T}) : ~OnCycle(r, U)

\* C18: validate::<T>() reports on T: it returns Ok when T is registered
\* and its dependencies are registered and free of cycles, and an error
\* when T is not registered or a dependency of T is missing or cyclic,
\* whatever the types unrelated to T declare.
C18_ValidateReportsOnType ==
    (last.op = "validate" /\ last.reg \in Regs)
        => (last.res.tag = "Ok" <=> Constructible(last.reg, last.ty))

\* What a result of validate_all or validate_all_full says, without the
\* diagnostics: Ok, Missing or Cycle.
Outcome(res) == IF res.tag = "Ok" THEN "Ok" ELSE res.what

\* C26: validate_all and validate_all_full agree.  In every state, a
\* validate_all (which may return a memoised verdict) and a
\* validate_all_full (which always walks) would return the same of Ok,
\* Missing and Cycle, whatever order the visitors are walked in; and each
\* of the two, when it has been called, has returned what the other
\* returns when called after it.
C26_FullAgreesWithValidateAll ==
    /\ \A order \in Orders : \A walk \in Perms(Visitors("p")) :
          validate_all(visitor["p"], context["p"], order["p"]).verdict
              = Outcome(validate_all_full(visitor["p"], walk, walk))
    /\ last.op = "validate_all_full"
          => \A order \in Orders :
                validate_all(visitor["p"], context["p"], order["p"]).verdict
                    = Outcome(last.res)
    /\ last.op = "validate_all"
          => \A walk \in Perms(Visitors("p")) :
                Outcome(validate_all_full(visitor["p"], walk, walk))
                    = Outcome(last.res)

\* validate_all_full has returned Missing for providers that have a cycle
\* too, while the context holds the verdict of an earlier validate_all.
C26_Witness ==
    /\ last.op = "validate_all_full"
    /\ Outcome(last.res) = "Missing"
    /\ HasCycle("p")
    /\ validate_context(context["p"]) = "Missing"

\* The Vec of a Missing error as a map from the owner to its list.
MissingOf(res) ==
    IF "missing" \in DOMAIN res
    THEN [T \in {res.missing[i].ty : i \in 1..Len(res.missing)} |->
             res.missing[CHOOSE i \in 1..Len(res.missing) :
                             res.missing[i].ty = T].deps]
    ELSE EmptyMap

\* What the providers registered in r call for: for each type with an
\* unregistered dependency, the unregistered types of its tuple, in the
\* order of the tuple.
MissingMap(r) ==
    [T \in MissingOwners(r) |->
        SelectSeq(as_typeids(objects[r][T].deps),
                  LAMBDA U : U \notin Registered(r))]

\* C27: the results of validation are a function of the set of providers
\* and of nothing else: in whatever order the register calls were made
\* (a type before or after its dependencies, with validations in between
\* or not) and in whatever order the visitors are walked, validate_all
\* returns the verdict of the set and validate_all_full the map from each
\* owner to its missing dependencies that the set calls for.
C27_OrderIndependent ==
    /\ \A order \in Orders :
          validate_all(visitor["p"], context["p"], order["p"]).verdict
              = Verdict("p")
    /\ \A walk \in Perms(Visitors("p")) : \A iter \in Perms(Types) :
          /\ Outcome(validate_all_full(visitor["p"], walk, iter))
                 = Verdict("p")
          /\ MissingOf(validate_all_full(visitor["p"], walk, iter))
                 = MissingMap("p")

\* The last register call has registered a type that a type registered
\* before it depends on; all three types are registered and the verdict
\* is Ok.
C27_Witness ==
    /\ last.op = "register"
    /\ last.res.tag = "Ok"
    /\ Registered("p") = Types
    /\ Verdict("p") = "Ok"
    /\ \E T \in Types \ {last.ty} : last.ty \in DeclaredDeps("p", T)

\* C28: when the providers have a directed cycle and nothing is missing,
\* validate_all_full returns Cycle with the name of a registered type that
\* lies on a directed cycle of declared dependencies, in whatever order
\* the visitors are walked: a type that only leads into a cycle is never
\* named.  The sort reports a cycle exactly when the graph of the walk
\* has one.
C28_CycleNamesNodeOnCycle ==
    \A walk \in Perms(Visitors("p")) :
        /\ (~HasMissing("p") /\ HasCycle("p"))
              => /\ validate_all_full(visitor["p"], walk, walk).tag = "Err"
                 /\ validate_all_full(visitor["p"], walk, walk).what
                        = "Cycle"
                 /\ validate_all_full(visitor["p"], walk, walk).of
                        \in Registered("p")
                 /\ OnCycle("p",
                            validate_all_full(visitor["p"], walk, walk).of)
        /\ calculate_validation(visitor["p"], VisitorContext_new,
                                walk).validation_cache.ok
              <=> (Peel(1..Cardinality(Visitors("p")),
                        calculate_validation(visitor["p"],
                                             VisitorContext_new,
                                             walk).graph.edges) = {})

\* validate_all_full has returned Cycle for three providers of which one
\* is not on a cycle and depends on one that is.
C28_Witness ==
    /\ last.op = "validate_all_full"
    /\ last.res.what = "Cycle"
    /\ Registered("p") = Types
    /\ \E T \in Types :
          /\ ~OnCycle("p", T)
          /\ \E U \in DeclaredDeps("p", T) : OnCycle("p", U)

\* The (type, position) pairs of the declared dependencies of r's visitors
\* that have a visitor of their own.
PresentDeps(r) ==
    UNION {{<<T, i>> : i \in {j \in 1..Len(visitor[r][T].type_ids) :
                        visitor[r][visitor[r][T].type_ids[j]].present}} :
           T \in Visitors(r)}

\* C39: the walk of the validator ends on every set of registrations,
\* cyclic ones and a type that lists itself included, in whatever order
\* the visitors are walked: the graph it leaves has one node for every
\* visitor and no second node for any (each visitor body has run once),
\* one edge for every declared dependency that has a visitor, from the
\* node of the type to the node of the dependency (a type is marked
\* visited before its dependencies are looked at, so that a type listing
\* itself gets an edge to its own node), and a type that lists itself,
\* when nothing is missing, makes validate_all and validate_all_full
\* return Cycle.
C39_WalkVisitsOnce ==
    \A walk \in Perms(Visitors("p")) :
        LET ctx == calculate_validation_uncached(visitor["p"],
                                                 VisitorContext_new, walk)
            nodes == ctx.graph.nodes
            edges == ctx.graph.edges
        IN /\ Len(nodes) = Cardinality(Visitors("p"))
           /\ {nodes[i] : i \in 1..Len(nodes)} = Visitors("p")
           /\ DOMAIN ctx.visited = Visitors("p")
           /\ \A T \in Visitors("p") : nodes[ctx.visited[T]] = T
           /\ Len(edges) = Cardinality(PresentDeps("p"))
           /\ {edges[i] : i \in 1..Len(edges)}
                  = {<<ctx.visited[x[1]],
                       ctx.visited[visitor["p"][x[1]].type_ids[x[2]]]>> :
                         x \in PresentDeps("p")}
           /\ ((\E T \in Visitors("p") :
                    \E i \in 1..Len(visitor["p"][T].type_ids) :
                        visitor["p"][T].type_ids[i] = T)
                 /\ ~HasMissing("p"))
                 => /\ validate_all(visitor["p"], VisitorContext_new,
                                    walk).verdict = "Cycle"
                    /\ validate_all_full(visitor["p"], walk, walk).tag
                           = "Err"
                    /\ validate_all_full(visitor["p"], walk, walk).what
                           = "Cycle"

\* validate_all has returned Cycle for a set of three providers in which
\* one lists itself and two others list each other.
C39_Witness ==
    /\ last.op = "validate_all"
    /\ last.res.tag = "Err" /\ last.res.what = "Cycle"
    /\ Registered("p") = Types
    /\ \E T \in Types : T \in DeclaredDeps("p", T)
    /\ \E T, U \in Types :
          /\ T # U
          /\ U \in DeclaredDeps("p", T)
          /\ T \in DeclaredDeps("p", U)

\* The label of the node that the line of index k of a dot text declares.
LabelOf(dot, k) ==
    dot.nodes[CHOOSE i \in 1..Len(dot.nodes) : dot.nodes[i].index = k].label

\* The types named by the node lines of a dot text, and the pairs of
\* types joined by its edge lines.
DotNodes(dot) == {dot.nodes[i].label : i \in 1..Len(dot.nodes)}

DotEdges(dot) ==
    {<<LabelOf(dot, dot.edges[i][1]), LabelOf(dot, dot.edges[i][2])>> :
        i \in 1..Len(dot.edges)}

\* C20: when validate_all of the registry is Ok, dotgraph returns a graph
\* with one node per registered type and no other node, and with an edge
\* from T to U exactly when T's dependency tuple lists U; when
\* validate_all is Err, dotgraph returns that error.
C20_DotgraphRoundTrip ==
    (last.op = "dotgraph" /\ last.reg \in Regs)
        => IF Verdict(last.reg) = "Ok"
           THEN /\ last.res.tag = "Ok"
                /\ DotNodes(last.res.dot) = Registered(last.reg)
                /\ Len(last.res.dot.nodes)
                       = Cardinality(Registered(last.reg))
                /\ DotEdges(last.res.dot)
                       = {<<T, U>> \in Types \X Types :
                             /\ T \in Registered(last.reg)
                             /\ U \in DeclaredDeps(last.reg, T)}
           ELSE last.res = Err(Verdict(last.reg), "")

\* dotgraph returned the graph of three registered types, one of which
\* declares the two others.
C20_Witness ==
    /\ last.op = "dotgraph"
    /\ last.res.tag = "Ok"
    /\ Len(last.res.dot.nodes) = 3
    /\ \E T \in Types : Cardinality(DeclaredDeps(last.reg, T)) = 2

(***************************************************************************)
(* SpecArity: one registry with u8 and u32 registered without              *)
(* dependencies, and u16 registered with a dependency tuple of any arity   *)
(* that DepBuilderImpl! is invoked for.                                    *)
(***************************************************************************)
\* The largest tuple with an impl of DepBuilder.
MaxArity == 8

\* The tuple of n handles whose j-th is Transient<u32> or Singleton<u32>
\* and whose others are Transient<u8> (all of them when j is 0).
TupleWith(n, j, d) ==
    [i \in 1..n |-> IF i = j THEN Handle(d, "u32")
                             ELSE Handle("Transient", "u8")]

DepTuplesArity ==
    {TupleWith(n, j, d) : n \in 1..MaxArity, j \in 0..MaxArity,
                          d \in Lifetimes}

NextArity ==
    \/ \E T \in {"u8", "u32"} : TryRegisterTransient("p", T)
    \/ TryRegisterSingleton("p", "u32")
    \/ \E deps \in DepTuplesArity :
          BuilderTryRegisterTransient("p", "u16", deps)
    \/ \E n \in 1..MaxArity :
          BuilderTryRegisterSingleton("p", "u16",
                                      TupleWith(n, n, "Singleton"))
    \/ Transient("p", "u16")
    \/ Singleton("p", "u16")

SpecArity == Init /\ [][NextArity]_vars

\* The first position of the tuple whose handle names the type U.
FirstOf(deps, U) ==
    CHOOSE i \in 1..Len(deps) :
        deps[i].ty = U /\ \A k \in 1..(i - 1) : deps[k].ty # U

\* The handles of the tuple up to the position `stop` that name U.
HandlesOf(deps, U, stop) == {i \in 1..stop : deps[i].ty = U}

\* Every handle of the tuple names the lifetime its type is registered
\* with in r, and no singleton among them has lost its constructor.
Fulfillable(r, deps) ==
    \A i \in 1..Len(deps) :
        /\ objects[r][deps[i].ty].kind = deps[i].dep
        /\ objects[r][deps[i].ty].cell # 0 \/ objects[r][deps[i].ty].ctor

\* The constructor calls that resolving the handles of U up to `stop`
\* takes: one per handle of a transient, one for the first handle of a
\* singleton whose cell is empty.
CallsFor(r, deps, U, stop) ==
    IF objects[r][U].kind = "Transient"
    THEN Cardinality(HandlesOf(deps, U, stop))
    ELSE IF HandlesOf(deps, U, stop) # {} /\ objects[r][U].cell = 0
    THEN 1 ELSE 0

\* C19: a resolve of a provider with the tuple (H1, ..., Hn), n from 1 to
\* 8, materialises the handles left to right and runs the constructor
\* after them.  When the constructor of a dependency fails at Hi, the
\* handles H1..Hi have been resolved (a transient by one constructor call
\* each, a singleton by initialising it), no handle after Hi has, and the
\* constructor of the provider has not run; when none fails, all n
\* handles have been resolved and the constructor has run once.
C19_TupleLeftToRight ==
    [][LET T == last'.ty
           deps == objects["p"][T].deps
           stop == IF last'.res.tag = "Panic"
                   THEN FirstOf(deps, last'.res.of) ELSE Len(deps)
       IN (/\ last'.op \in {"transient", "singleton"}
           /\ objects["p"][T].shape = "WithDeps"
           /\ objects["p"][T].kind = (IF last'.op = "transient"
                                      THEN "Transient" ELSE "Singleton")
           /\ objects["p"][T].ctor
           /\ Verdict("p") = "Ok"
           /\ Fulfillable("p", deps))
             => /\ last'.res.tag \in {"Ok", "Err", "Panic"}
                /\ last'.res.tag = "Err" => last'.res = Err("Ctor", T)
                /\ last'.res.tag = "Panic"
                      => /\ last'.res.of \in DeclaredDeps("p", T)
                         /\ ctorCalls'["p"][T] = ctorCalls["p"][T]
                /\ last'.res.tag # "Panic"
                      => ctorCalls'["p"][T] = ctorCalls["p"][T] + 1
                /\ \A U \in Types \ {T} :
                      ctorCalls'["p"][U] = ctorCalls["p"][U]
                          + CallsFor("p", deps, U, stop)]_vars

\* A resolve of the tuple of eight handles has built the seven u8 of its
\* first handles and panicked in the eighth, where the initialisation of
\* the singleton u32 failed.
C19_Witness ==
    /\ last.op \in {"transient", "singleton"}
    /\ last.ty = "u16"
    /\ objects["p"]["u16"].deps = TupleWith(MaxArity, MaxArity, "Singleton")
    /\ last.res.tag = "Panic" /\ last.res.of = "u32"
    /\ ctorCalls["p"]["u8"] = MaxArity - 1
    /\ ctorErrs["p"]["u32"] = 1
    /\ ctorCalls["p"]["u16"] = 0

(***************************************************************************)
(* Threads.  Each thread makes one call into the root registry p and runs  *)
(* it in the steps between which other threads may run: acquiring a guard  *)
(* of the RwLock around objects, the lookup, the stages of the provider,   *)
(* the nested resolve of each dependency, dropping the guard.              *)
(*                                                                         *)
(* The lock is parking_lot's (tokio's behaves alike): a writer sets the    *)
(* writer bit and then waits for the read guards to be dropped; read()     *)
(* blocks while the writer bit is set, also in a thread that already holds *)
(* a read guard.  A panic unwinds the thread and drops its guards.         *)
(***************************************************************************)
\* A frame of a thread: a call of Registry::transient / Registry::singleton
\* (kind is the lifetime asked for) or of a register function, which
\* inserts `object` (the Object of register_transient unless the call
\* names another).
Frame(kind, T) ==
    [kind |-> kind, ty |-> T, pc |-> IF kind = "Register" THEN "write"
                                      ELSE "read",
     i |-> 0, out |-> NoResult, object |-> NoObject]

Top(t) == threads[t].stack[Len(threads[t].stack)]

Running(t, pc) ==
    threads[t].status = "running" /\ Top(t).pc = pc

\* The thread goes on in its innermost frame.
SetTop(t, frame) ==
    threads' = [threads EXCEPT ![t].stack = [@ EXCEPT ![Len(@)] = frame]]

\* The thread's call ends with res; nothing is left on its stack.
Done(t, res) ==
    threads' = [threads EXCEPT ![t] = [@ EXCEPT !.status = "done",
                                                !.stack = << >>,
                                                !.res = res]]

\* An Err or a panic leaves the innermost call: an Err of a nested call
\* meets the expect() of Dep::new, and the unwinding drops every read
\* guard of the thread.
Unwind(t, res) ==
    /\ Done(t, IF Len(threads[t].stack) > 1
               THEN expect([st |-> State, res |-> res],
                           IF Top(t).kind = "Transient"
                           THEN "transient dependency must only be constructed if it's fulfillable"
                           ELSE "singleton dependency must only be constructed if it's fulfillable").res
               ELSE res)
    /\ objects_lock' = [objects_lock EXCEPT !.readers[t] = 0]

\* A thread is given its call: registry.transient::<T>() or
\* registry.singleton::<T>().
ThreadResolve(t, kind, T) ==
    /\ threads[t].status = "idle"
    /\ threads' = [threads EXCEPT ![t] =
                       [status |-> "running", op |-> [kind |-> kind, ty |-> T],
                        stack |-> <<Frame(kind, T)>>, res |-> NoResult]]
    /\ UNCHANGED <<objects, visitor, context, ctorCalls, ctorErrs, okCalls,
                   insts, last, objects_lock, validator_lock,
                   default_registry, strong>>

\* A thread is given its call: registry.register_transient::<T>(ctor).
ThreadRegister(t, T) ==
    /\ threads[t].status = "idle"
    /\ threads' = [threads EXCEPT ![t] =
                       [status |-> "running",
                        op |-> [kind |-> "Register", ty |-> T],
                        stack |-> <<[Frame("Register", T) EXCEPT !.object =
                                        Object("Transient", "NoDeps", << >>)]>>,
                        res |-> NoResult]]
    /\ UNCHANGED <<objects, visitor, context, ctorCalls, ctorErrs, okCalls,
                   insts, last, objects_lock, validator_lock,
                   default_registry, strong>>

\* let lock = self.objects.read();
Read(t) ==
    /\ Running(t, "read")
    /\ objects_lock.writer = NoThread
    /\ objects_lock' = [objects_lock EXCEPT !.readers[t] = @ + 1]
    /\ SetTop(t, [Top(t) EXCEPT !.pc = "lookup"])
    /\ UNCHANGED <<objects, visitor, context, ctorCalls, ctorErrs, okCalls,
                   insts, last, validator_lock, default_registry, strong>>

\* if let Some(Object::<kind>(provider)) = lock.get(..): the provider is
\* entered with the guard held; a root has no parent to ask otherwise.
Lookup(t) ==
    /\ Running(t, "lookup")
    /\ LET f == Top(t)
           obj == objects["p"][f.ty]
       IN IF obj.kind = f.kind
          THEN /\ SetTop(t, [f EXCEPT !.pc =
                      IF obj.shape = "NoDeps"
                      THEN (IF f.kind = "Singleton" THEN "get_or_try_init"
                            ELSE "ctor")
                      ELSE (IF f.kind = "Singleton" THEN "take"
                            ELSE "validate")])
               /\ UNCHANGED objects_lock
          ELSE Unwind(t, Err("TypeMissing", f.ty))
    /\ UNCHANGED <<objects, visitor, context, ctorCalls, ctorErrs, okCalls,
                   insts, last, validator_lock, default_registry, strong>>

\* The constructors of the calls that threads make return Ok; the stages
\* that take this environment do not iterate the visitor map.
ThreadEnv == Env([r \in Regs |-> << >>], {})

\* What a stage of a provider leaves in the registry.
Stage(out) ==
    /\ objects' = out.st.objects
    /\ ctorCalls' = out.st.ctorCalls
    /\ UNCHANGED <<visitor, context, ctorErrs, okCalls, insts, last,
                   validator_lock, default_registry, strong>>

\* The stage of a provider ended with out: the frame goes on to drop its
\* guard, or the thread unwinds.
Staged(t, out) ==
    IF out.res.tag = "Ok"
    THEN /\ SetTop(t, [Top(t) EXCEPT !.pc = "drop", !.out = out.res])
         /\ UNCHANGED objects_lock
    ELSE Unwind(t, out.res)

\* SingletonGetterNoDeps::get_singleton: once_cell lets one thread at a
\* time into get_or_try_init, so the check of the cell, the closure and
\* the store into the cell are one step for the other threads.
GetOrTryInit(t) ==
    /\ Running(t, "get_or_try_init")
    /\ LET out == SingletonGetterNoDeps_get_singleton(
                      State, ThreadEnv, "p", Top(t).ty)
       IN Stage(out) /\ Staged(t, out)

\* SingletonGetterWithDeps::get_singleton, its first statement:
\* self.ctor.write().take().expect("to be called only once").
Take(t) ==
    /\ Running(t, "take")
    /\ LET T == Top(t).ty IN
       IF ~objects["p"][T].ctor
       THEN /\ Unwind(t, Panic("to be called only once", T))
            /\ UNCHANGED objects
       ELSE /\ objects' = [objects EXCEPT !["p"][T].ctor = FALSE]
            /\ SetTop(t, [Top(t) EXCEPT !.pc = "validate"])
            /\ UNCHANGED objects_lock
    /\ UNCHANGED <<visitor, context, ctorCalls, ctorErrs, okCalls, insts,
                   last, validator_lock, default_registry, strong>>

\* registry.validate::<R>()? at the head of build / build_once.
Validate(t) ==
    /\ Running(t, "validate")
    /\ \E order \in Orders :
          LET T == Top(t).ty
              v == validate(visitor["p"], context["p"], T, order["p"])
          IN /\ context' = [context EXCEPT !["p"] = v.context]
             /\ IF v.verdict # "Ok"
                THEN Unwind(t, Err("Validation" \o v.verdict, T))
                ELSE /\ SetTop(t, [Top(t) EXCEPT !.pc = "deps", !.i = 1])
                     /\ UNCHANGED objects_lock
    /\ UNCHANGED <<objects, visitor, ctorCalls, ctorErrs, okCalls, insts,
                   last, validator_lock, default_registry, strong>>

\* The tuple expression: <$ts>::new(registry) for the next handle calls
\* into the registry again; after the last handle the constructor is due.
Deps(t) ==
    /\ Running(t, "deps")
    /\ LET f == Top(t)
           deps == objects["p"][f.ty].deps
       IN IF f.i > Len(deps)
          THEN SetTop(t, [f EXCEPT !.pc = "ctor"])
          ELSE threads' = [threads EXCEPT ![t].stack =
                   Append([@ EXCEPT ![Len(@)] = [f EXCEPT !.pc = "await"]],
                          Frame(deps[f.i].dep, deps[f.i].ty))]
    /\ UNCHANGED <<objects, visitor, context, ctorCalls, ctorErrs, okCalls,
                   insts, last, objects_lock, validator_lock,
                   default_registry, strong>>

\* The user constructor runs; a singleton with dependencies then does
\* cell.get_or_init with what it built.
Ctor(t) ==
    /\ Running(t, "ctor")
    /\ LET T == Top(t).ty
           made == call_ctor(State, ThreadEnv, "p", T)
           out == IF Top(t).kind = "Singleton"
                  THEN get_or_init(made, "p", T) ELSE made
       IN Stage(out) /\ Staged(t, out)

\* drop(lock) and the return of the resolve: to the tuple expression of
\* the caller, or to the thread's caller.
Drop(t) ==
    /\ Running(t, "drop")
    /\ LET f == Top(t)
           n == Len(threads[t].stack)
           counted == returned([st |-> State, res |-> f.out])
       IN /\ okCalls' = counted.st.okCalls
          /\ insts' = counted.st.insts
          /\ IF n = 1 THEN Done(t, f.out)
             ELSE threads' = [threads EXCEPT ![t].stack =
                      [j \in 1..(n - 1) |->
                          IF j = n - 1
                          THEN [@[j] EXCEPT !.pc = "deps", !.i = @ + 1]
                          ELSE @[j]]]
    /\ objects_lock' = [objects_lock EXCEPT !.readers[t] = @ - 1]
    /\ UNCHANGED <<objects, visitor, context, ctorCalls, ctorErrs, last,
                   validator_lock, default_registry, strong>>

\* insert_or_panic, let mut lock = self.objects.write(): the writer bit is
\* set as soon as no other writer has it.
Write(t) ==
    /\ Running(t, "write")
    /\ objects_lock.writer = NoThread
    /\ objects_lock' = [objects_lock EXCEPT !.writer = t]
    /\ SetTop(t, [Top(t) EXCEPT !.pc = "insert"])
    /\ UNCHANGED <<objects, visitor, context, ctorCalls, ctorErrs, okCalls,
                   insts, last, validator_lock, default_registry, strong>>

\* The writer has waited until every read guard was dropped: the entry is
\* inserted (or the call panics) and the write guard dropped.
Insert(t) ==
    /\ Running(t, "insert")
    /\ \A u \in Threads : objects_lock.readers[u] = 0
    /\ LET T == Top(t).ty
           ins == insert_or_panic(objects, "p", T, Top(t).object)
       IN /\ objects' = ins.objects
          /\ IF ins.res.tag = "Panic" THEN Done(t, ins.res)
             ELSE SetTop(t, [Top(t) EXCEPT !.pc = "add_visitor",
                                           !.out = ins.res])
    /\ objects_lock' = [objects_lock EXCEPT !.writer = NoThread]
    /\ UNCHANGED <<visitor, context, ctorCalls, ctorErrs, okCalls, insts,
                   last, validator_lock, default_registry, strong>>

\* self.validator.add_transient_no_deps::<T>() after the insert.
AddVisitor(t) ==
    /\ Running(t, "add_visitor")
    /\ LET added == add_visitor(visitor, context, "p", Top(t).ty,
                                as_typeids(Top(t).object.deps)) IN
       /\ visitor' = added.visitor
       /\ context' = added.context
    /\ Done(t, Top(t).out)
    /\ UNCHANGED <<objects, ctorCalls, ctorErrs, okCalls, insts, last,
                   objects_lock, validator_lock, default_registry, strong>>

(***************************************************************************)
(* SpecConc: the main thread wires the root registry, then two threads     *)
(* call into it concurrently: each resolves a type or registers one.       *)
(***************************************************************************)
\* No thread has been given its call yet.
AllIdle == \A t \in Threads : threads[t].status = "idle"

\* The types the threads resolve, and the type a thread registers.
ConcTypes == {"u8", "u16"}

LateType == "u32"

NextConc ==
    \/ AllIdle /\ TryRegisterSingleton("p", "u8")
    \/ AllIdle /\ TryRegisterTransient("p", "u8")
    \/ AllIdle /\ \E deps \in DepTuples("u16") :
                     BuilderTryRegisterSingleton("p", "u16", deps)
    \/ AllIdle /\ \E deps \in DepTuples("u16") :
                     BuilderTryRegisterTransient("p", "u16", deps)
    \/ \E t \in Threads, kind \in Lifetimes, T \in ConcTypes :
          ThreadResolve(t, kind, T)
    \/ \E t \in Threads : ThreadRegister(t, LateType)
    \/ \E t \in Threads : Read(t)
    \/ \E t \in Threads : Lookup(t)
    \/ \E t \in Threads : GetOrTryInit(t)
    \/ \E t \in Threads : Take(t)
    \/ \E t \in Threads : Validate(t)
    \/ \E t \in Threads : Deps(t)
    \/ \E t \in Threads : Ctor(t)
    \/ \E t \in Threads : Drop(t)
    \/ \E t \in Threads : Write(t)
    \/ \E t \in Threads : Insert(t)
    \/ \E t \in Threads : AddVisitor(t)

SpecConc == Init /\ [][NextConc]_vars

\* T is registered as a singleton whose dependencies, if it has any, are
\* Singleton handles of types registered as singletons.
SingletonOfSingletons(T) ==
    /\ objects["p"][T].kind = "Singleton"
    /\ \A i \in 1..Len(objects["p"][T].deps) :
          /\ objects["p"][T].deps[i].dep = "Singleton"
          /\ objects["p"][objects["p"][T].deps[i].ty].kind = "Singleton"

\* Every thread has called singleton::<T>() and its call has ended.
AllResolved(T) ==
    \A t \in Threads : /\ threads[t].status = "done"
                       /\ threads[t].op = [kind |-> "Singleton", ty |-> T]

\* C3: when all threads resolve one singleton concurrently (without or
\* with singleton dependencies), every call returns Ok with the same
\* instance and the constructor has run exactly once.
C3_ConcurrentSingletonOnce ==
    \A T \in Types :
        (SingletonOfSingletons(T) /\ AllResolved(T))
            => (/\ \A t \in Threads : threads[t].res.tag = "Ok"
                /\ \A t, u \in Threads : threads[t].res = threads[u].res
                /\ ctorCalls["p"][T] = 1)

\* C9: a thread that resolves never waits for a read guard of the objects
\* lock while it holds one and a writer (a register call) has set the
\* writer bit and waits for the read guards to be dropped: neither of the
\* two could ever go on.
C9_NoNestedReadBehindWriter ==
    \A t \in Threads :
        ~(/\ Running(t, "read")
          /\ objects_lock.readers[t] > 0
          /\ objects_lock.writer # NoThread)

(***************************************************************************)
(* SpecStress: the threads share the root registry; each registers types   *)
(* that no other thread registers and calls validate_all in between.  The  *)
(* calls into the validator run in the steps between which other threads   *)
(* may run: acquiring and releasing the RwLocks around its visitor map and *)
(* its context.                                                            *)
(***************************************************************************)
\* The result of a validate_all that found `verdict`.
verdict_result(verdict) ==
    IF verdict = "Ok" THEN [NoResult EXCEPT !.tag = "Ok"]
    ELSE Err(verdict, "")

\* A thread that is not inside a call makes its next call, which starts
\* in `frame`.
ThreadCall(t, frame) ==
    /\ threads[t].status # "running"
    /\ threads' = [threads EXCEPT ![t] =
                       [status |-> "running",
                        op |-> [kind |-> frame.kind, ty |-> frame.ty],
                        stack |-> <<frame>>, res |-> NoResult]]
    /\ UNCHANGED <<objects, visitor, context, ctorCalls, ctorErrs, okCalls,
                   insts, last, objects_lock, validator_lock,
                   default_registry, strong>>

\* add_transient_deps, let mut visitors = self.visitor.write(): the writer
\* bit is set as soon as no other writer has it.
VisitorWrite(t) ==
    /\ Running(t, "add_visitor")
    /\ validator_lock.visitor.writer = NoThread
    /\ validator_lock' = [validator_lock EXCEPT !.visitor.writer = t]
    /\ SetTop(t, [Top(t) EXCEPT !.pc = "visitors_insert"])
    /\ UNCHANGED <<objects, visitor, context, ctorCalls, ctorErrs, okCalls,
                   insts, last, objects_lock, default_registry, strong>>

\* visitors.insert(TypeId::of::<T>(), visitor), once the read guards of
\* the visitor map are dropped.
VisitorsInsert(t) ==
    /\ Running(t, "visitors_insert")
    /\ \A u \in Threads : validator_lock.visitor.readers[u] = 0
    /\ visitor' = add_visitor(visitor, context, "p", Top(t).ty,
                              as_typeids(Top(t).object.deps)).visitor
    /\ SetTop(t, [Top(t) EXCEPT !.pc = "context_write"])
    /\ UNCHANGED <<objects, context, ctorCalls, ctorErrs, okCalls, insts,
                   last, objects_lock, validator_lock, default_registry,
                   strong>>

\* self.context.write(), in add_transient_deps and in validate_all: both
\* hold a guard of the visitor map by then.
ContextWrite(t) ==
    /\ Running(t, "context_write")
    /\ validator_lock.context.writer = NoThread
    /\ validator_lock' = [validator_lock EXCEPT !.context.writer = t]
    /\ SetTop(t, [Top(t) EXCEPT !.pc = IF Top(t).kind = "Register"
                                       THEN "context_reset"
                                       ELSE "calculate"])
    /\ UNCHANGED <<objects, visitor, context, ctorCalls, ctorErrs, okCalls,
                   insts, last, objects_lock, default_registry, strong>>

\* context.reset(), then both write guards are dropped and the register
\* call returns.
ContextReset(t) ==
    /\ Running(t, "context_reset")
    /\ \A u \in Threads : validator_lock.context.readers[u] = 0
    /\ context' = add_visitor(visitor, context, "p", Top(t).ty,
                              as_typeids(Top(t).object.deps)).context
    /\ validator_lock' = [validator_lock EXCEPT !.visitor.writer = NoThread,
                                                !.context.writer = NoThread]
    /\ Done(t, Top(t).out)
    /\ UNCHANGED <<objects, visitor, ctorCalls, ctorErrs, okCalls, insts,
                   last, objects_lock, default_registry, strong>>

\* validate_all returns `verdict` to its caller: the thread's call ends
\* with it, unless the caller is dotgraph and the verdict is Ok (the `?`
\* of self.validate_all()? lets dotgraph go on).
validate_all_returns(t, verdict) ==
    IF Top(t).kind = "Dotgraph" /\ verdict = "Ok"
    THEN SetTop(t, [Top(t) EXCEPT !.pc = "dot_context_read"])
    ELSE Done(t, verdict_result(verdict))

\* validate_all, its first lines: under a read guard of the context,
\* return the verdict held there, or drop the guard and go on.
ContextRead(t) ==
    /\ Running(t, "context_read")
    /\ validator_lock.context.writer = NoThread
    /\ LET first == validate_context(context["p"]) IN
       IF first = "Stale" THEN SetTop(t, [Top(t) EXCEPT !.pc = "visitor_read"])
       ELSE validate_all_returns(t, IF first = "Cached" THEN "Ok" ELSE first)
    /\ UNCHANGED <<objects, visitor, context, ctorCalls, ctorErrs, okCalls,
                   insts, last, objects_lock, validator_lock,
                   default_registry, strong>>

\* let visitors = self.visitor.read();
VisitorRead(t) ==
    /\ Running(t, "visitor_read")
    /\ validator_lock.visitor.writer = NoThread
    /\ validator_lock' = [validator_lock EXCEPT !.visitor.readers[t] = @ + 1]
    /\ SetTop(t, [Top(t) EXCEPT !.pc = "context_write"])
    /\ UNCHANGED <<objects, visitor, context, ctorCalls, ctorErrs, okCalls,
                   insts, last, objects_lock, default_registry, strong>>

\* The rest of validate_all under both guards: the second look at the
\* context, the walk over the visitors, the verdict; the guards are
\* dropped when it returns.
Calculate(t) ==
    /\ Running(t, "calculate")
    /\ \A u \in Threads : validator_lock.context.readers[u] = 0
    /\ \E order \in Orders :
          LET v == validate_all(visitor["p"], context["p"], order["p"]) IN
          /\ context' = [context EXCEPT !["p"] = v.context]
          /\ validate_all_returns(t, v.verdict)
    /\ validator_lock' = [validator_lock EXCEPT
                              !.visitor.readers[t] = @ - 1,
                              !.context.writer = NoThread]
    /\ UNCHANGED <<objects, visitor, ctorCalls, ctorErrs, okCalls, insts,
                   last, objects_lock, default_registry, strong>>

\* The providers a thread may register for T: u16 depends on u8, u32 on
\* u8 and u16, and u8 on nothing or on u32, which closes a cycle.
StressObjects(T) ==
    IF T = "u8"
    THEN {Object("Transient", "NoDeps", << >>),
          Object("Transient", "WithDeps", <<Handle("Transient", "u32")>>)}
    ELSE IF T = "u16"
    THEN {Object("Transient", "WithDeps", <<Handle("Transient", "u8")>>)}
    ELSE {Object("Transient", "WithDeps",
                 <<Handle("Transient", "u8"), Handle("Transient", "u16")>>)}

\* No thread registers or has registered T: the threads register disjoint
\* sets of types.
Unclaimed(T) ==
    /\ objects["p"][T].kind = "None"
    /\ \A u \in Threads : threads[u].op # [kind |-> "Register", ty |-> T]

\* The steps of the calls that the threads are in.
StressStep(t) ==
    \/ Write(t)
    \/ Insert(t)
    \/ VisitorWrite(t)
    \/ VisitorsInsert(t)
    \/ ContextWrite(t)
    \/ ContextReset(t)
    \/ ContextRead(t)
    \/ VisitorRead(t)
    \/ Calculate(t)

NextStress ==
    \/ \E t \in Threads, T \in Types : \E obj \in StressObjects(T) :
          /\ Unclaimed(T)
          /\ ThreadCall(t, [Frame("Register", T) EXCEPT !.object = obj])
    \/ \E t \in Threads :
          ThreadCall(t, [Frame("ValidateAll", "") EXCEPT
                             !.pc = "context_read"])
    \/ \E t \in Threads : Write(t)
    \/ \E t \in Threads : Insert(t)
    \/ \E t \in Threads : VisitorWrite(t)
    \/ \E t \in Threads : VisitorsInsert(t)
    \/ \E t \in Threads : ContextWrite(t)
    \/ \E t \in Threads : ContextReset(t)
    \/ \E t \in Threads : ContextRead(t)
    \/ \E t \in Threads : VisitorRead(t)
    \/ \E t \in Threads : Calculate(t)

SpecStress == Init /\ [][NextStress]_vars

\* The lock that the next step of t takes, or whose guards it waits to be
\* dropped, lets t go on.
Ready(t) ==
    LET pc == Top(t).pc IN
    IF pc = "write" THEN objects_lock.writer = NoThread
    ELSE IF pc = "insert"
    THEN \A u \in Threads : objects_lock.readers[u] = 0
    ELSE IF pc \in {"add_visitor", "visitor_read"}
    THEN validator_lock.visitor.writer = NoThread
    ELSE IF pc = "visitors_insert"
    THEN \A u \in Threads : validator_lock.visitor.readers[u] = 0
    ELSE IF pc \in {"context_write", "context_read", "dot_context_read"}
    THEN validator_lock.context.writer = NoThread
    ELSE \A u \in Threads : validator_lock.context.readers[u] = 0

\* No thread is inside a call.
Quiet == \A t \in Threads : threads[t].status # "running"

\* C21: threads that register disjoint sets of types and call validate_all
\* in between never block each other for good (while a thread is inside a
\* call, some thread can take a step), and lose no registration: whenever
\* all calls have returned, every type a thread has registered is in the
\* objects table and has its visitor, and validate_all and
\* validate_all_full return the verdict of the providers registered, Ok
\* when all their dependencies are registered and free of cycles.
C21_StressRegistration ==
    /\ ~Quiet => \E t \in Threads : threads[t].status = "running" /\ Ready(t)
    /\ Quiet =>
          /\ Visitors("p") = Registered("p")
          /\ \A t \in Threads :
                threads[t].op.kind = "Register"
                    => /\ threads[t].res.tag = "Ok"
                       /\ threads[t].op.ty \in Registered("p")
          /\ \A order \in Perms(Visitors("p")) :
                /\ validate_all(visitor["p"], context["p"], order).verdict
                       = Verdict("p")
                /\ validate_all_full(visitor["p"], order, order).what
                       = verdict_result(Verdict("p")).what
                /\ validate_all_full(visitor["p"], order, order).tag
                       = verdict_result(Verdict("p")).tag

\* All three types are registered and form a complete graph without a
\* cycle; the last call of one thread was a registration and the last call
\* of the other a validate_all that returned Ok.
C21_Witness ==
    /\ Quiet
    /\ Registered("p") = Types
    /\ Verdict("p") = "Ok"
    /\ threads["t1"].op.kind = "Register"
    /\ threads["t2"].op.kind = "ValidateAll"
    /\ threads["t2"].res.tag = "Ok"

\* C29: registration is atomic for the other threads: whenever neither
\* the lock of the table nor the lock of the visitor map is held by a
\* writer (so that another thread may read both), every type with a
\* provider in the table has a visitor in the validator.
C29_RegistrationAtomic ==
    (objects_lock.writer = NoThread
         /\ validator_lock["visitor"].writer = NoThread)
        => \A T \in Types :
              objects["p"][T].kind # "None" => visitor["p"][T].present

(***************************************************************************)
(* SpecDot: the threads share the root registry; each registers types that *)
(* no other thread registers and calls dotgraph in between.                *)
(***************************************************************************)
\* The types whose register call has returned.
Completed ==
    {T \in Types :
        /\ visitor["p"][T].present
        /\ \A u \in Threads :
              ~(threads[u].status = "running"
                  /\ threads[u].op = [kind |-> "Register", ty |-> T])}

\* A call of registry.dotgraph(), which starts with validate_all; `before`
\* keeps the types whose registration had completed when it was called.
DotFrame ==
    [kind |-> "Dotgraph", ty |-> "", pc |-> "context_read", i |-> 0,
     out |-> NoResult, object |-> NoObject, before |-> Completed]

\* dotgraph after validate_all returned Ok: let context =
\* self.context.read(), and the graph held there is formatted.
DotContextRead(t) ==
    /\ Running(t, "dot_context_read")
    /\ validator_lock.context.writer = NoThread
    /\ Done(t, [tag |-> "Ok", what |-> "", of |-> "", prov |-> NoReg,
                inst |-> 0, dot |-> Dot(context["p"].graph)])
    /\ UNCHANGED <<objects, visitor, context, ctorCalls, ctorErrs, okCalls,
                   insts, last, objects_lock, validator_lock,
                   default_registry, strong>>

\* The providers a thread may register for T: u16 depends on u8.
DotObjects(T) ==
    IF T = "u16"
    THEN {Object("Transient", "WithDeps", <<Handle("Transient", "u8")>>)}
    ELSE {Object("Transient", "NoDeps", << >>)}

NextDot ==
    \/ \E t \in Threads, T \in Types : \E obj \in DotObjects(T) :
          /\ Unclaimed(T)
          /\ ThreadCall(t, [Frame("Register", T) EXCEPT !.object = obj])
    \/ \E t \in Threads : ThreadCall(t, DotFrame)
    \/ \E t \in Threads : Write(t)
    \/ \E t \in Threads : Insert(t)
    \/ \E t \in Threads : VisitorWrite(t)
    \/ \E t \in Threads : VisitorsInsert(t)
    \/ \E t \in Threads : ContextWrite(t)
    \/ \E t \in Threads : ContextReset(t)
    \/ \E t \in Threads : ContextRead(t)
    \/ \E t \in Threads : VisitorRead(t)
    \/ \E t \in Threads : Calculate(t)
    \/ \E t \in Threads : DotContextRead(t)

SpecDot == Init /\ [][NextDot]_vars

\* The types that have a node in a dot text.
DotLabels(dot) == {dot.nodes[k].label : k \in 1..Len(dot.nodes)}

\* C36: dotgraph is consistent under concurrent registration.  When a
\* dotgraph call returns Ok(G), G has a node for every type whose
\* registration had completed before the call started.
C36_DotgraphConsistent ==
    [][\A t \in Threads :
          (/\ threads[t].status = "running"
           /\ threads[t].op.kind = "Dotgraph"
           /\ threads'[t].status = "done"
           /\ threads'[t].res.tag = "Ok")
              => Top(t).before \subseteq DotLabels(threads'[t].res.dot)]_vars

(***************************************************************************)
(* SpecAsync: the async flavour.  A call of singleton::<T>() is a future   *)
(* that a task polls from one await to the next and that its owner may     *)
(* drop at an await.  The caller awaits or drops one future before it      *)
(* makes the next call.  The steps are those of the threads; only the      *)
(* getter of a singleton without dependencies differs, whose closure has   *)
(* awaits of its own between taking the constructor and storing the value. *)
(***************************************************************************)
\* The positions of the innermost call at which its future is suspended:
\* objects.read().await, cell.get_or_try_init(..).await,
\* self.ctor.write().await, (ctor)().await and ctor(deps).await.
AwaitPoints == {"read", "get_or_try_init", "ctor_write", "ctor_await",
                "take", "ctor"}

\* The result slot of a task whose future was dropped at the await `pc` of
\* the call for T.
Cancelled(pc, T) ==
    [tag |-> "Cancelled", what |-> pc, of |-> T, prov |-> NoReg, inst |-> 0]

\* AsyncSingletonNoDeps::get_singleton, cell.get_or_try_init: the value of
\* an initialised cell is returned, otherwise the closure is entered.
AsyncGetOrTryInit(t) ==
    /\ Running(t, "get_or_try_init")
    /\ LET obj == objects["p"][Top(t).ty] IN
       IF obj.cell # 0
       THEN SetTop(t, [Top(t) EXCEPT !.pc = "drop",
                                     !.out = Ok("p", Top(t).ty, obj.cell)])
       ELSE SetTop(t, [Top(t) EXCEPT !.pc = "ctor_write"])
    /\ UNCHANGED <<objects, visitor, context, ctorCalls, ctorErrs, okCalls,
                   insts, last, objects_lock, validator_lock,
                   default_registry, strong>>

\* The closure's first statement: self.ctor.write().await, then
\* lock.take().expect("to be called only once").
AsyncTake(t) ==
    /\ Running(t, "ctor_write")
    /\ LET T == Top(t).ty IN
       IF ~objects["p"][T].ctor
       THEN /\ Unwind(t, Panic("to be called only once", T))
            /\ UNCHANGED objects
       ELSE /\ objects' = [objects EXCEPT !["p"][T].ctor = FALSE]
            /\ SetTop(t, [Top(t) EXCEPT !.pc = "ctor_await"])
            /\ UNCHANGED objects_lock
    /\ UNCHANGED <<visitor, context, ctorCalls, ctorErrs, okCalls, insts,
                   last, validator_lock, default_registry, strong>>

\* (ctor)().await completes: the closure returns the object, which the
\* cell stores, or the error, which leaves the cell empty.
AsyncCtor(t) ==
    /\ Running(t, "ctor_await")
    /\ LET T == Top(t).ty
           made == call_ctor(State, ThreadEnv, "p", T)
           out == IF made.res.tag # "Ok" THEN made
                  ELSE [st |-> [made.st EXCEPT
                                   !.objects["p"][T].cell = made.res.inst],
                        res |-> made.res]
       IN Stage(out) /\ Staged(t, out)

\* The owner drops the future of the task's call at an await: the frames
\* of the call are dropped with their guards, nothing else is undone.
Cancel(t) ==
    /\ threads[t].status = "running"
    /\ Top(t).pc \in AwaitPoints
    /\ threads' = [threads EXCEPT ![t] =
                       [@ EXCEPT !.status = "cancelled", !.stack = << >>,
                                 !.res = Cancelled(Top(t).pc, Top(t).ty)]]
    /\ objects_lock' = [objects_lock EXCEPT !.readers[t] = 0]
    /\ UNCHANGED <<objects, visitor, context, ctorCalls, ctorErrs, okCalls,
                   insts, last, validator_lock, default_registry, strong>>

\* The types the tasks resolve as singletons.
AsyncTypes == {"u8", "u16"}

NextAsync ==
    \/ Quiet /\ TryRegisterSingleton("p", "u8")
    \/ Quiet /\ TryRegisterTransient("p", "u8")
    \/ Quiet /\ \E deps \in DepTuples("u16") :
                   BuilderTryRegisterSingleton("p", "u16", deps)
    \/ \E t \in Threads, T \in AsyncTypes :
          Quiet /\ MayResolve /\ ThreadCall(t, Frame("Singleton", T))
    \/ \E t \in Threads : Read(t)
    \/ \E t \in Threads : Lookup(t)
    \/ \E t \in Threads : AsyncGetOrTryInit(t)
    \/ \E t \in Threads : AsyncTake(t)
    \/ \E t \in Threads : AsyncCtor(t)
    \/ \E t \in Threads : Take(t)
    \/ \E t \in Threads : Validate(t)
    \/ \E t \in Threads : Deps(t)
    \/ \E t \in Threads : Ctor(t)
    \/ \E t \in Threads : Drop(t)
    \/ \E t \in Threads : Cancel(t)

SpecAsync == Init /\ [][NextAsync]_vars

\* The future of the task's singleton::<T>() was dropped while the user
\* constructor of T was running.
CancelledInCtor(t, T) ==
    /\ threads[t].status = "cancelled"
    /\ threads[t].op = [kind |-> "Singleton", ty |-> T]
    /\ threads[t].res \in {Cancelled("ctor_await", T), Cancelled("ctor", T)}

\* C22: a singleton::<T>() future dropped while the constructor of T runs
\* leaves the cell of T empty and T resolvable: as long as no later call
\* has filled the cell, the next singleton::<T>() returns Ok when the
\* constructors succeed.
C22_CancelledSingletonRetried ==
    \A t \in Threads, T \in Types :
        (CancelledInCtor(t, T) /\ Quiet /\ objects["p"][T].cell = 0)
            => \A order \in Orders :
                  singleton(State, Env(order, {}), "p", T).res.tag = "Ok"

(***************************************************************************)
(* SpecGlobal: the threads call Registry::global(), again and again.  The  *)
(* static DEFAULT_REGISTRY is a once-cell: `cell` is 0 while it is empty   *)
(* and the number of the registry it holds afterwards (registries are      *)
(* numbered in the order Registry::empty made them), `running` is the      *)
(* thread inside the cell's initialiser.  The collection of registration   *)
(* functions has one function per type, which registers the type as a      *)
(* transient; `invoked` counts the invocations of each.  The registry that *)
(* autoregistered fills is p; a thread that holds a handle to it resolves  *)
(* through it: Registry::global().transient::<T>().                        *)
(***************************************************************************)
\* A once-cell that lets a thread into the initialiser while another
\* thread is inside it.
get_or_init_racy(cell, t) ==
    IF cell.cell # 0 THEN "get" ELSE "init"

\* OnceCell::get_or_init as the thread t meets it: the value of a filled
\* cell is returned; the closure is run when the cell is empty and no
\* thread runs it; otherwise t waits.
DEFAULT_REGISTRY_get_or_init(cell, t) ==
    IF cell.cell # 0 THEN "get"
    ELSE IF cell.running = NoThread THEN "init"
    ELSE "wait"

\* The handle that Registry::global returns: a clone of the Ref in the
\* cell.
GlobalHandle(k) == [NoResult EXCEPT !.tag = "Ok", !.prov = "p", !.inst = k]

\* The frame of a call of Registry::global; `funcs` tells how far each
\* registration function of the collection has come in the closure that
\* the call runs: "spawned", "inserted" or "joined".
GlobalFrame ==
    [kind |-> "Global", ty |-> "", pc |-> "get_or_init", i |-> 0,
     out |-> NoResult, object |-> NoObject,
     funcs |-> [T \in Types |-> "spawned"]]

\* DEFAULT_REGISTRY.get_or_init(..): return the registry, or enter the
\* closure, whose first statement is Self::empty().
GlobalGetOrInit(t) ==
    /\ Running(t, "get_or_init")
    /\ LET way == DEFAULT_REGISTRY_get_or_init(default_registry, t) IN
       /\ way # "wait"
       /\ IF way = "get"
          THEN /\ Done(t, GlobalHandle(default_registry.cell))
               /\ UNCHANGED default_registry
          ELSE /\ SetTop(t, [Top(t) EXCEPT !.pc = "register",
                                           !.i = default_registry.made + 1])
               /\ default_registry' =
                      [default_registry EXCEPT !.running = t,
                                               !.made = @ + 1]
    /\ UNCHANGED <<objects, visitor, context, ctorCalls, ctorErrs, okCalls,
                   insts, last, objects_lock, validator_lock, strong>>

\* for register in inventory::iter::<RegistrationFunc>: a function of the
\* collection is invoked with the new registry and inserts its object.
\* The collection has no order that a caller may rely on, and the tokio
\* flavour spawns the functions as tasks of a JoinSet, so that their steps
\* interleave.  A function that panics ends the closure, and the cell
\* stays empty.
Autoregister(t) ==
    /\ Running(t, "register")
    /\ \E T \in Types :
          LET ins == insert_or_panic(objects, "p", T,
                                     Object("Transient", "NoDeps", << >>))
          IN /\ Top(t).funcs[T] = "spawned"
             /\ objects' = ins.objects
             /\ IF ins.res.tag = "Panic"
                THEN /\ Done(t, ins.res)
                     /\ default_registry' =
                            [default_registry EXCEPT
                                 !.running = NoThread,
                                 !.invoked[T] = @ + 1]
                ELSE /\ SetTop(t, [Top(t) EXCEPT !.funcs[T] = "inserted"])
                     /\ default_registry' =
                            [default_registry EXCEPT !.invoked[T] = @ + 1]
    /\ UNCHANGED <<visitor, context, ctorCalls, ctorErrs, okCalls, insts,
                   last, objects_lock, validator_lock, strong>>

\* The rest of a registration function: the validator is told, and the
\* function returns.
AutoregisterVisitor(t) ==
    /\ Running(t, "register")
    /\ \E T \in Types :
          LET added == add_visitor(visitor, context, "p", T, << >>) IN
          /\ Top(t).funcs[T] = "inserted"
          /\ visitor' = added.visitor
          /\ context' = added.context
          /\ SetTop(t, [Top(t) EXCEPT !.funcs[T] = "joined"])
    /\ UNCHANGED <<objects, ctorCalls, ctorErrs, okCalls, insts, last,
                   objects_lock, validator_lock, default_registry, strong>>

\* Every function has returned; the closure returns Ref::new(new): the
\* cell is filled, and global returns a clone of the Ref.
GlobalStore(t) ==
    /\ Running(t, "register")
    /\ \A T \in Types : Top(t).funcs[T] = "joined"
    /\ default_registry' = [default_registry EXCEPT !.cell = Top(t).i,
                                                    !.running = NoThread]
    /\ Done(t, GlobalHandle(Top(t).i))
    /\ UNCHANGED <<objects, visitor, context, ctorCalls, ctorErrs, okCalls,
                   insts, last, objects_lock, validator_lock, strong>>

NextGlobal ==
    \/ \E t \in Threads : ThreadCall(t, GlobalFrame)
    \/ \E t \in Threads : GlobalGetOrInit(t)
    \/ \E t \in Threads : Autoregister(t)
    \/ \E t \in Threads : AutoregisterVisitor(t)
    \/ \E t \in Threads : GlobalStore(t)
    \/ \E t \in Threads, T \in Types :
          /\ threads[t].status = "done"
          /\ threads[t].op.kind = "Global"
          /\ threads[t].res.tag = "Ok"
          /\ MayResolve
          /\ ThreadCall(t, Frame("Transient", T))
    \/ \E t \in Threads : Read(t)
    \/ \E t \in Threads : Lookup(t)
    \/ \E t \in Threads : Ctor(t)
    \/ \E t \in Threads : Drop(t)

SpecGlobal == Init /\ [][NextGlobal]_vars

\* C23: whatever calls of Registry::global the threads make, one after
\* another or at the same time, no registration function is invoked twice,
\* only one registry is ever made, and every call that has returned has
\* returned a handle to that registry, into which every registration
\* function has been invoked exactly once.
C23_GlobalPopulatedOnce ==
    /\ default_registry.made <= 1
    /\ \A T \in Types : default_registry.invoked[T] <= 1
    /\ default_registry.cell # 0
          => \A T \in Types : /\ default_registry.invoked[T] = 1
                              /\ objects["p"][T].kind # "None"
    /\ \A t \in Threads :
          (threads[t].status = "done" /\ threads[t].op.kind = "Global")
              => /\ threads[t].res = GlobalHandle(1)
                 /\ default_registry.cell = 1

\* Both threads have called Registry::global and hold a handle to the
\* registry that one of them has made, into which every registration
\* function has been invoked.
C23_Witness ==
    /\ threads["t1"].status = "done"
    /\ threads["t1"].res = GlobalHandle(1)
    /\ threads["t2"].status = "done"
    /\ threads["t2"].res = GlobalHandle(1)
    /\ \A T \in Types : default_registry.invoked[T] = 1

(***************************************************************************)
(* SpecReset: one thread uses the global registry p: it calls              *)
(* Registry::global, registers further types on the handle by hand,        *)
(* validates, resolves, and calls Registry::reset_global.  The collection  *)
(* of registration functions holds one function, which registers u8 as a   *)
(* transient.                                                              *)
(***************************************************************************)
AutoType == "u8"

\* (register.0)(&registry) for the function of the collection: the
\* tables after registry.register_transient::<u8>(..) on `objs`.
run_registration(objs, vis, ctxs) ==
    [ins |-> insert_or_panic(objs, "p", AutoType,
                             Object("Transient", "NoDeps", << >>)),
     added |-> add_visitor(vis, ctxs, "p", AutoType, << >>)]

\* The first Registry::global(): the cell is empty, autoregistered makes
\* the registry and runs the registration function, the cell is filled.
GlobalFirst ==
    /\ default_registry.cell = 0
    /\ LET ran == run_registration(objects, visitor, context) IN
       /\ objects' = ran.ins.objects
       /\ visitor' = ran.added.visitor
       /\ context' = ran.added.context
    /\ default_registry' = [default_registry EXCEPT
                                !.cell = 1, !.made = 1,
                                !.invoked[AutoType] = @ + 1]
    /\ last' = [op |-> "global", reg |-> "p", ty |-> "",
                res |-> GlobalHandle(1)]
    /\ UNCHANGED <<ctorCalls, ctorErrs, okCalls, insts, threads,
                   objects_lock, validator_lock, strong>>

\* lock.clear() on the objects of the registry.
clear(objs) == [objs EXCEPT !["p"] = [T \in Types |-> NoObject]]

\* Registry::reset_global: the objects of the global registry are
\* cleared and the registration function runs again, on the validator as
\* it is.
ResetGlobal ==
    /\ default_registry.cell # 0
    /\ default_registry.invoked[AutoType] < MaxResets
    /\ LET ran == run_registration(clear(objects), visitor, context) IN
       /\ objects' = ran.ins.objects
       /\ visitor' = ran.added.visitor
       /\ context' = ran.added.context
       /\ last' = [op |-> "reset_global", reg |-> "p", ty |-> "",
                   res |-> ran.ins.res]
    /\ default_registry' = [default_registry EXCEPT
                                !.invoked[AutoType] = @ + 1]
    /\ UNCHANGED <<ctorCalls, ctorErrs, okCalls, insts, threads,
                   objects_lock, validator_lock, strong>>

\* The tuples of the provider of u16 that the caller registers by hand.
ResetTuples == {<<Handle("Transient", U)>> : U \in {"u8", "u32"}}

NextReset ==
    \/ GlobalFirst
    \/ default_registry.cell # 0 /\ TryRegisterTransient("p", "u32")
    \/ default_registry.cell # 0
          /\ \E deps \in ResetTuples :
                BuilderTryRegisterTransient("p", "u16", deps)
    \/ ResetGlobal
    \/ default_registry.cell # 0 /\ ValidateAll("p")
    \/ default_registry.cell # 0 /\ Dotgraph("p")
    \/ default_registry.cell # 0 /\ Transient("p", "u16")

SpecReset == Init /\ [][NextReset]_vars

\* C37: after reset_global the validator of the global registry describes
\* its table: the types that have a visitor are the types that have a
\* provider, and these are the types that the registration functions
\* install; a validation walks no other type and dotgraph shows no other.
C37_ResetValidatorMatchesTable ==
    last.op = "reset_global"
        => /\ Registered("p") = {AutoType}
           /\ Visitors("p") = Registered("p")
           /\ \A order \in Orders :
                 /\ validate_all(visitor["p"], context["p"], order["p"])
                        .verdict = Verdict("p")
                 /\ dotgraph(visitor["p"], context["p"], order["p"])
                        .res.tag = "Ok"
                 /\ DotLabels(dotgraph(visitor["p"], context["p"],
                                       order["p"]).res.dot)
                        = Registered("p")

=============================================================================
